---- MODULE Spec2Model ----
(***************************************************************************)
(* The battery threshold monitor (EnhancedBatteryMonitor, and the          *)
(* BatteryMonitor of app.py whose alert logic it repeats line for line):   *)
(* one polling loop that reads the battery, re-arms, honours snooze and    *)
(* dismissal, triggers the alert and tracks per-minute deltas, plus the    *)
(* input thread's commands snooze, dismiss and set.                        *)
(*                                                                         *)
(* Time is in whole seconds.  An optional value (Python None or a value)   *)
(* is a sequence of length 0 or 1.                                         *)
(***************************************************************************)
EXTENDS Integers, Sequences, FiniteSets, TLC

\* ------------------------------------------------------------------ bounds

\* The clock stops advancing after this many minutes.
MaxMinutes == 2

\* The environment lets this many seconds pass between two events (two such
\* steps with no tick in between make a longer gap).
Gaps == {30}

\* The user types at most this many commands in one run.
MaxCommands == 2

\* Battery percentages the reading source reports.
Percents == {79, 80}

\* The percentages of the ticks-only runs, which include the scenario's.
ScenarioPercents == {78, 79, 80, 81}

\* The threshold the monitor is constructed with.
InitThresholds == {80}

\* The numbers a user types after "set".
SetInputs == {0, 80, 150}

\* ------------------------------------------------------- program constants

\* timedelta(minutes=1) of _handle_snooze, in seconds
SnoozeSeconds == 60

\* the 60.0 s window of the per-minute tracking
MinuteSeconds == 60

\* ---------------------------------------------------------------- helpers

None == << >>

Some(x) == << x >>

Val(o) == o[1]

\* sum, min and max of a list, halving it so that long lists stay shallow
RECURSIVE SeqSum(_)
SeqSum(s) ==
    IF s = << >> THEN 0
    ELSE IF Len(s) = 1 THEN s[1]
    ELSE LET h == Len(s) \div 2
         IN SeqSum(SubSeq(s, 1, h)) + SeqSum(SubSeq(s, h + 1, Len(s)))

RECURSIVE SeqMin(_)
SeqMin(s) ==
    IF Len(s) = 1 THEN s[1]
    ELSE LET h == Len(s) \div 2
             l == SeqMin(SubSeq(s, 1, h))
             r == SeqMin(SubSeq(s, h + 1, Len(s)))
         IN IF l < r THEN l ELSE r

RECURSIVE SeqMax(_)
SeqMax(s) ==
    IF Len(s) = 1 THEN s[1]
    ELSE LET h == Len(s) \div 2
             l == SeqMax(SubSeq(s, 1, h))
             r == SeqMax(SubSeq(s, h + 1, Len(s)))
         IN IF l > r THEN l ELSE r

\* max(1, min(100, new_threshold))
Clamp(n) == IF n < 1 THEN 1 ELSE IF n > 100 THEN 100 ELSE n

VARIABLES
    now,            \* the wall clock, datetime.now()
    percent,        \* what the reading source reports: percentage
    plugged,        \*                                  charging flag
    variant,        \* which monitor runs: "app" (app.py) or "enhanced"
    mon,            \* the monitor object's fields
    db,             \* the charge-cycle table of the database
    out,            \* what the last step emitted: alerts and printed replies
    tick,           \* the polling thread: position in the iteration, locals
    inp,            \* the input thread: position in its handler, locals
    cycleNotifs,    \* history: sink calls since the last re-arm (saturating)
    tickNotifs,     \* history: ticks that notified since the last re-arm or snooze
    prevTick,       \* history: was the previous tick's reading below threshold,
                    \*          and how many ticks in a row were (up to 2)
    dismissedSince, \* history: a dismiss took effect and no tick saw below since
    scen,           \* history: the ticks so far, while they follow Scenario
    sn,             \* history: when the pending snooze was issued while Alerting,
                    \*          the reading having stayed charging at/above since
    sinceBelow,     \* history: commands since a tick last saw below threshold
    windows,        \* history: every minute delta reported, with its window
    commands,       \* history: how many commands the user has typed
    race,           \* history: the tick in progress and the command that overlapped it
    devices,        \* the device table of the database: the registered ids
    closes,         \* history: per charge cycle, who finalized it, in order
    source,         \* the sensors behind the reading: the phone's (adb) and the
                    \*   laptop's (psutil), where a run tells them apart
    owner           \* history: the device whose reading the monitor took last

vars == << now, percent, plugged, variant, mon, db, out, tick, inp, cycleNotifs,
           tickNotifs, prevTick, dismissedSince, scen, sn, sinceBelow,
           windows, commands, race, devices, closes, source, owner >>

\* what the alert logic and the commands never change
world == << variant, devices, closes, source, owner >>

ghosts == << cycleNotifs, tickNotifs, prevTick, dismissedSince, scen, sn,
             sinceBelow, windows >>

\* ------------------------------------------------------------ charge cycle

\* a mutant of db_end_charge_cycle: the end is recorded, completed is not set
db_end_leaves_open(rows, cycle_id, end_percentage, min_delta, max_delta, avg_delta) ==
    IF cycle_id \in DOMAIN rows
    THEN [rows EXCEPT ![cycle_id] =
            [@ EXCEPT !.end_percentage = Some(end_percentage),
                      !.min_delta_1m = min_delta,
                      !.max_delta_1m = max_delta,
                      !.avg_delta_1m = avg_delta]]
    ELSE rows

\* DatabaseManager.end_charge_cycle: the row is completed with the aggregates.
db_end_charge_cycle(rows, cycle_id, end_percentage, min_delta, max_delta, avg_delta) ==
    IF cycle_id \in DOMAIN rows
    THEN [rows EXCEPT ![cycle_id] =
            [@ EXCEPT !.end_percentage = Some(end_percentage),
                      !.min_delta_1m = min_delta,
                      !.max_delta_1m = max_delta,
                      !.avg_delta_1m = avg_delta,
                      !.completed = TRUE]]
    ELSE rows

\* a mutant of end_charge_cycle: a cycle without deltas gets zero aggregates
end_charge_cycle_zeros(c, end_percentage) ==
    IF c.mon.active_charge_cycle = None THEN c
    ELSE LET d == IF c.mon.per_minute_diffs # << >> THEN c.mon.per_minute_diffs
                  ELSE << 0 >>
         IN [c EXCEPT !.db = db_end_charge_cycle(c.db, Val(c.mon.active_charge_cycle),
                                                 end_percentage, Some(SeqMin(d)),
                                                 Some(SeqMax(d)),
                                                 Some([sum |-> SeqSum(d),
                                                       len |-> Len(d)])),
                      !.mon.active_charge_cycle = None]

\* A context is what one handler run reads and writes: the monitor's fields
\* (mon), the table (db), what this run emitted so far (out), the
\* minute deltas reported in this run (deltas), and whether it raised.
end_charge_cycle(c, end_percentage) ==
    IF c.mon.active_charge_cycle = None THEN c
    ELSE LET d == c.mon.per_minute_diffs
             min_delta == IF d # << >> THEN Some(SeqMin(d)) ELSE None
             max_delta == IF d # << >> THEN Some(SeqMax(d)) ELSE None
             avg_delta == IF d # << >>
                          THEN Some([sum |-> SeqSum(d), len |-> Len(d)])
                          ELSE None
         IN [c EXCEPT !.db = db_end_charge_cycle(c.db, Val(c.mon.active_charge_cycle),
                                                 end_percentage, min_delta,
                                                 max_delta, avg_delta),
                      !.mon.active_charge_cycle = None]

\* ------------------------------------------------------- the polling tick

\* a faulty re-arm: the reset on every below-threshold tick, not only on the
\* tick that follows a reading at/above threshold
rearm_every_below_tick(c, p) ==
    LET current_below == p < c.mon.threshold_percent
        r == IF current_below
             THEN end_charge_cycle(
                     [c EXCEPT !.mon.dismissed_until_below = FALSE,
                               !.mon.alerted = FALSE,
                               !.mon.alert_active = FALSE,
                               !.mon.reached_time = None], p)
             ELSE c
    IN [r EXCEPT !.mon.last_below_threshold = current_below]

\* "Reset dismissal when battery drops below threshold"
rearm_step(c, p) ==
    LET current_below == p < c.mon.threshold_percent
        r == IF current_below /\ ~c.mon.last_below_threshold
             THEN end_charge_cycle(
                     [c EXCEPT !.mon.dismissed_until_below = FALSE,
                               !.mon.alerted = FALSE,
                               !.mon.alert_active = FALSE,
                               !.mon.reached_time = None], p)
             ELSE c
    IN [r EXCEPT !.mon.last_below_threshold = current_below]

\* the snooze test of the tick: TRUE while the snooze has not lapsed
is_snoozed(m, t) == m.snooze_until # None /\ t < Val(m.snooze_until)

\* "if self._snooze_until: self._snooze_until = None"
snooze_expiry_step(c, t) ==
    IF is_snoozed(c.mon, t) THEN c ELSE [c EXCEPT !.mon.snooze_until = None]

\* the guard of the trigger
reached(m, p, pl) == pl /\ ~m.dismissed_until_below /\ p >= m.threshold_percent

\* a faulty stamp: reached_time stamped anew on every tick at/above threshold
stamp_every_tick(c, p, t) ==
    end_charge_cycle([c EXCEPT !.mon.reached_time = Some(t)], p)

\* "if self._reached_time is None": stamp, and end the charge cycle
stamp_step(c, p, t) ==
    IF c.mon.reached_time = None
    THEN end_charge_cycle([c EXCEPT !.mon.reached_time = Some(t)], p)
    ELSE c

\* _trigger_alert: one call to the notification sink
trigger_alert(c) == [c EXCEPT !.out = Append(@, "trigger_alert")]

\* _beep: the single beep of app.py's _update_threshold
beep(c) == [c EXCEPT !.out = Append(@, "beep")]

\* "self._alert_active = True; self._alerted = True"
mark_alert_step(c) == [c EXCEPT !.mon.alert_active = TRUE, !.mon.alerted = TRUE]

\* a faulty trigger: the sink called whether or not the alert is active
alert_every_tick(c) ==
    [c EXCEPT !.out = Append(@, "trigger_alert"),
              !.mon.alert_active = TRUE,
              !.mon.alerted = TRUE]

\* "if not self._alert_active": trigger and mark
alert_step(c) ==
    IF ~c.mon.alert_active THEN mark_alert_step(trigger_alert(c)) ELSE c

\* the snooze check and the trigger
trigger_step(c, p, pl, t) ==
    IF is_snoozed(c.mon, t) THEN c
    ELSE LET e == snooze_expiry_step(c, t)
         IN IF reached(e.mon, p, pl) THEN alert_step(stamp_step(e, p, t)) ELSE e

\* a faulty anchor: moved to the time of the tick, so that the windows drift
advance_anchor_to_now(anchor, t) == t

\* "Advance anchor by 60s": by exactly one window, not to the time of the tick
advance_anchor(anchor, t) == anchor + MinuteSeconds

\* a faulty tracking: the anchor percentage is not moved to the reading, so
\* every minute of one tick records the same difference
RECURSIVE minute_loop_keeps_percent(_, _, _, _)
minute_loop_keeps_percent(c, p, t, elapsed) ==
    IF elapsed >= MinuteSeconds /\ c.mon.minute_anchor_percent # None
    THEN LET diff == p - Val(c.mon.minute_anchor_percent)
             anchor == Val(c.mon.minute_anchor_time)
             next == advance_anchor(anchor, t)
         IN minute_loop_keeps_percent(
              [c EXCEPT !.mon.per_minute_diffs = Append(@, diff),
                        !.mon.minute_anchor_time = Some(next),
                        !.deltas = Append(@, [value |-> diff,
                                              windowStart |-> anchor,
                                              windowEnd |-> next])],
              p, t, elapsed - MinuteSeconds)
    ELSE c

\* "Track 1-minute changes": one delta per full minute since the anchor.  Each
\* delta is reported (the 1m line) for the window it closes: from the anchor
\* to the advanced anchor.
RECURSIVE minute_loop(_, _, _, _)
minute_loop(c, p, t, elapsed) ==
    IF elapsed >= MinuteSeconds /\ c.mon.minute_anchor_percent # None
    THEN LET diff == p - Val(c.mon.minute_anchor_percent)
             anchor == Val(c.mon.minute_anchor_time)
             next == advance_anchor(anchor, t)
         IN minute_loop(
              [c EXCEPT !.mon.per_minute_diffs = Append(@, diff),
                        !.mon.minute_anchor_time = Some(next),
                        !.mon.minute_anchor_percent = Some(p),
                        !.deltas = Append(@, [value |-> diff,
                                              windowStart |-> anchor,
                                              windowEnd |-> next])],
              p, t, elapsed - MinuteSeconds)
    ELSE c

\* a faulty tracking: "if" in place of "while", one delta a tick at most
minute_step_once(c, p, t) ==
    IF c.mon.minute_anchor_time = None
    THEN [c EXCEPT !.mon.minute_anchor_time = Some(t),
                   !.mon.minute_anchor_percent = Some(p)]
    ELSE LET elapsed == t - Val(c.mon.minute_anchor_time)
         IN minute_loop(c, p, t, IF elapsed >= MinuteSeconds THEN MinuteSeconds
                                 ELSE elapsed)

\* "Track 1-minute changes": the first anchor, or the loop over the minutes
minute_step(c, p, t) ==
    IF c.mon.minute_anchor_time = None
    THEN [c EXCEPT !.mon.minute_anchor_time = Some(t),
                   !.mon.minute_anchor_percent = Some(p)]
    ELSE minute_loop(c, p, t, t - Val(c.mon.minute_anchor_time))

\* a line printed on the console
print(c, what) == [c EXCEPT !.out = Append(@, what)]

\* one iteration of _monitor_loop on the reading (p, pl) at time t, ending
\* with the status line
tick_body(c, p, pl, t) ==
    print(minute_step(trigger_step(rearm_step(c, p), p, pl, t), p, t), "line")

\* --------------------------------------------------------------- commands

\* _handle_snooze, statement by statement
snooze_set_until(c, t) == [c EXCEPT !.mon.snooze_until = Some(t + SnoozeSeconds)]

snooze_clear_active(c) == print([c EXCEPT !.mon.alert_active = FALSE], "snoozed")

snooze_body(c, t) == snooze_clear_active(snooze_set_until(c, t))

\* _handle_dismiss: refused while the reading says plugged
dismiss_refused(c) == print(c, "cannot_dismiss")

dismiss_set_dismissed(c) == [c EXCEPT !.mon.dismissed_until_below = TRUE]

dismiss_clear_active(c) == print([c EXCEPT !.mon.alert_active = FALSE], "dismissed")

\* a faulty dismiss: the plugged check left out
dismiss_unguarded(c, pl) ==
    [c EXCEPT !.mon.dismissed_until_below = TRUE,
              !.mon.alert_active = FALSE,
              !.out = Append(@, "dismissed")]

dismiss_body(c, pl) ==
    IF pl THEN dismiss_refused(c)
    ELSE dismiss_clear_active(dismiss_set_dismissed(c))

\* _update_threshold.  At or above the new threshold app.py beeps once and
\* marks alerted; app_enhanced.py calls self._trigger_alert() without the two
\* arguments its _trigger_alert requires, which raises TypeError after
\* reached_time was stamped.
update_set_threshold(c, new_threshold) ==
    [c EXCEPT !.mon.threshold_percent = Clamp(new_threshold), !.mon.alerted = FALSE]

update_restart_or_alert(c, v, p, t) ==
    IF p < c.mon.threshold_percent
    THEN print([c EXCEPT !.mon.start_time = Some(t),
                         !.mon.start_percent = Some(p),
                         !.mon.reached_time = None], "restarting_timer")
    ELSE LET c2 == [c EXCEPT !.mon.reached_time = Some(t)]
         IN IF v = "app"
            THEN print([beep(c2) EXCEPT !.mon.alerted = TRUE], "alerting_now")
            ELSE [c2 EXCEPT !.raised = TRUE]

update_threshold_body(c, v, new_threshold, p, t) ==
    update_restart_or_alert(update_set_threshold(c, new_threshold), v, p, t)

\* ------------------------------------------------------------------ state

\* the context a handler starts from
Ctx == [mon |-> mon, db |-> db, out |-> << >>, deltas |-> << >>, raised |-> FALSE]

Idle == [pc |-> "idle"]

\* the readings of the scenario: threshold 80, charging, one per tick
Scenario == << 78, 79, 80, 81 >>

ScenOff == [on |-> FALSE, at |-> << >>]

NoRace == [on |-> FALSE]

Sat2(n) == IF n > 2 THEN 2 ELSE n

Triggers(s) == Cardinality({i \in DOMAIN s : s[i] = "trigger_alert"})

\* the sensors are not told apart: percent and plugged are what
\* _get_battery_info returns, the laptop's reading
LaptopOnly == source = << >> /\ owner = "laptop"

\* __init__ and start(): the session and the minute anchor start at the first
\* reading; the enhanced monitor opens a charge cycle when plugged and the
\* device row exists (start_charge_cycle raises otherwise, and start() goes on).
InitWith(P) ==
    /\ now = 0
    /\ percent \in P
    /\ plugged \in BOOLEAN
    /\ variant \in {"app", "enhanced"}
    /\ \E th \in InitThresholds, registered \in BOOLEAN :
         LET opened == variant = "enhanced" /\ plugged /\ registered
         IN /\ registered => opened
            /\ devices = IF registered THEN {"laptop_default"} ELSE {}
            /\ mon = [threshold_percent |-> th,
                      start_time |-> Some(now),
                      start_percent |-> Some(percent),
                      reached_time |-> None,
                      alerted |-> FALSE,
                      alert_active |-> FALSE,
                      snooze_until |-> None,
                      dismissed_until_below |-> FALSE,
                      last_below_threshold |-> TRUE,
                      minute_anchor_time |-> Some(now),
                      minute_anchor_percent |-> Some(percent),
                      per_minute_diffs |-> << >>,
                      active_charge_cycle |-> IF opened THEN Some(1) ELSE None]
            /\ db = IF opened
                    THEN << [device_id |-> "laptop_default",
                             start_percentage |-> percent,
                             target_percentage |-> th,
                             end_percentage |-> None,
                             min_delta_1m |-> None,
                             max_delta_1m |-> None,
                             avg_delta_1m |-> None,
                             completed |-> FALSE] >>
                    ELSE << >>
    /\ out = << >>
    /\ tick = Idle
    /\ inp = Idle
    /\ cycleNotifs = 0
    /\ tickNotifs = 0
    /\ prevTick = [below |-> "none", run |-> 0]
    /\ dismissedSince = FALSE
    /\ scen = [on |-> TRUE, at |-> << >>]
    /\ sn = None
    /\ sinceBelow = "none"
    /\ windows = << >>
    /\ commands = 0
    /\ race = NoRace
    /\ closes = << >>
    /\ LaptopOnly

\* ------------------------------------------------- history of a whole tick

\* the reading dropped from at/above threshold (previous tick) to below it
RearmObserved(p) == prevTick.below = "no" /\ p < mon.threshold_percent

TickHistory(r, p, pl, t) ==
    LET below == p < mon.threshold_percent
        rearmed == RearmObserved(p)
        n == Triggers(r.out)
    IN /\ cycleNotifs' = Sat2((IF rearmed THEN 0 ELSE cycleNotifs) + n)
       /\ tickNotifs' = Sat2((IF rearmed THEN 0 ELSE tickNotifs) + n)
       /\ prevTick' = IF below THEN [below |-> "yes", run |-> Sat2(prevTick.run + 1)]
                      ELSE [below |-> "no", run |-> 0]
       /\ dismissedSince' = (dismissedSince /\ ~below)
       /\ scen' = IF /\ scen.on
                     /\ Len(scen.at) < Len(Scenario)
                     /\ p = Scenario[Len(scen.at) + 1]
                     /\ pl
                  THEN [scen EXCEPT !.at = Append(@, t)]
                  ELSE ScenOff
       /\ sn' = IF sn = None THEN sn
                ELSE IF rearmed THEN None
                ELSE IF t >= Val(sn) + SnoozeSeconds /\ pl /\ ~below THEN None
                ELSE sn
       /\ sinceBelow' = IF below THEN "quiet" ELSE sinceBelow
       /\ windows' = windows \o r.deltas

\* ---------------------------------------------------------------- actions

\* Time passes and the battery reading may change.
time_passes(dt, p, pl) ==
    /\ tick.pc = "idle"
    /\ inp.pc \in {"idle", "dead"}
    /\ now + dt <= MaxMinutes * MinuteSeconds
    /\ now' = now + dt
    /\ percent' = p
    /\ plugged' = pl
    /\ out' = << >>
    /\ sn' = IF pl /\ p >= mon.threshold_percent THEN sn ELSE None
    /\ UNCHANGED << world, mon, db, tick, inp, commands, race >>
    /\ UNCHANGED << cycleNotifs, tickNotifs, prevTick, dismissedSince, scen,
                    sinceBelow, windows >>

\* One whole iteration of _monitor_loop.
monitor_loop ==
    /\ tick.pc = "idle"
    /\ inp.pc \in {"idle", "dead"}
    /\ LET r == tick_body(Ctx, percent, plugged, now)
       IN /\ mon' = r.mon
          /\ db' = r.db
          /\ out' = r.out
          /\ TickHistory(r, percent, plugged, now)
    /\ UNCHANGED << now, percent, plugged, world, tick, inp, commands, race >>

\* The user types "snooze".
handle_snooze ==
    /\ tick.pc = "idle"
    /\ inp.pc = "idle"
    /\ commands < MaxCommands
    /\ commands' = commands + 1
    /\ LET r == snooze_body(Ctx, now)
       IN /\ mon' = r.mon
          /\ out' = r.out
    /\ tickNotifs' = 0
    /\ scen' = ScenOff
    /\ sn' = IF mon.alert_active THEN Some(now) ELSE sn
    /\ sinceBelow' = IF sinceBelow = "quiet" /\ percent >= mon.threshold_percent
                     THEN "cmd" ELSE sinceBelow
    /\ UNCHANGED << now, percent, plugged, world, db, tick, inp, race >>
    /\ UNCHANGED << cycleNotifs, prevTick, dismissedSince, windows >>

\* The user types "dismiss".
handle_dismiss ==
    /\ tick.pc = "idle"
    /\ inp.pc = "idle"
    /\ commands < MaxCommands
    /\ commands' = commands + 1
    /\ LET r == dismiss_body(Ctx, plugged)
       IN /\ mon' = r.mon
          /\ out' = r.out
    /\ dismissedSince' = (dismissedSince \/ ~plugged)
    /\ scen' = ScenOff
    /\ sinceBelow' = IF sinceBelow = "quiet" /\ percent >= mon.threshold_percent
                     THEN "cmd" ELSE sinceBelow
    /\ UNCHANGED << now, percent, plugged, world, db, tick, inp, race >>
    /\ UNCHANGED << cycleNotifs, tickNotifs, prevTick, sn, windows >>

\* The user types "set <n>".  A handler that raises ends the input thread.
update_threshold(n) ==
    /\ tick.pc = "idle"
    /\ inp.pc = "idle"
    /\ commands < MaxCommands
    /\ commands' = commands + 1
    /\ LET r == update_threshold_body(Ctx, variant, n, percent, now)
       IN /\ mon' = r.mon
          /\ out' = r.out
          /\ inp' = IF r.raised THEN [pc |-> "dead"] ELSE inp
    /\ scen' = ScenOff
    /\ sinceBelow' = IF sinceBelow = "quiet" THEN "cmd" ELSE sinceBelow
    /\ UNCHANGED << now, percent, plugged, world, db, tick, race >>
    /\ UNCHANGED << cycleNotifs, tickNotifs, prevTick, dismissedSince, sn,
                    windows >>

Next ==
    \/ \E dt \in Gaps, p \in Percents, pl \in BOOLEAN : time_passes(dt, p, pl)
    \/ monitor_loop
    \/ handle_snooze
    \/ handle_dismiss
    \/ \E n \in SetInputs : update_threshold(n)

Init == InitWith(Percents)

Spec == Init /\ [][Next]_vars

\* ------------------------------------------- the two threads, step by step

\* The polling thread and the input thread share the monitor's fields with
\* no lock: a handler's statements interleave with the statements of a tick.
\* The clock and the reading stand still while a tick or a handler runs.

\* line 266: the tick reads the battery
t_read ==
    /\ tick.pc = "idle"
    /\ inp.pc \in {"idle", "dead"}
    /\ tick' = [pc |-> "rearm", p |-> percent, pl |-> plugged]
    /\ race' = [on |-> TRUE, mon0 |-> mon, db0 |-> db, p |-> percent,
                pl |-> plugged, t |-> now, cmd |-> << >>]
    /\ out' = << >>
    /\ UNCHANGED << now, percent, plugged, world, mon, db, inp, commands >>
    /\ UNCHANGED ghosts

\* a step of the tick that turns context c into r and goes on at pc
TickStep(r, pc) ==
    /\ mon' = r.mon
    /\ db' = r.db
    /\ out' = r.out
    /\ tick' = [tick EXCEPT !.pc = pc]
    /\ UNCHANGED << now, percent, plugged, world, inp, commands, race >>
    /\ UNCHANGED ghosts

\* lines 321-330
t_rearm ==
    /\ tick.pc = "rearm"
    /\ TickStep(rearm_step(Ctx, tick.p), "snooze")

\* lines 333-338
t_snooze ==
    /\ tick.pc = "snooze"
    /\ IF is_snoozed(mon, now)
       THEN TickStep(Ctx, "minute")
       ELSE TickStep(snooze_expiry_step(Ctx, now), "guard")

\* lines 341-346
t_guard ==
    /\ tick.pc = "guard"
    /\ IF reached(mon, tick.p, tick.pl)
       THEN TickStep(stamp_step(Ctx, tick.p, now), "check")
       ELSE TickStep(Ctx, "minute")

\* lines 348-349: the call of _trigger_alert, which beeps and sends
t_trigger ==
    /\ tick.pc = "check"
    /\ IF ~mon.alert_active
       THEN TickStep(trigger_alert(Ctx), "mark")
       ELSE TickStep(Ctx, "minute")

\* lines 350-351
t_mark ==
    /\ tick.pc = "mark"
    /\ TickStep(mark_alert_step(Ctx), "minute")

\* lines 356-388: the minute tracking and the status line end the tick; a
\* handler still running then did not run within this tick
t_minute ==
    /\ tick.pc = "minute"
    /\ LET r == print(minute_step(Ctx, tick.p, now), "line")
       IN /\ mon' = r.mon
          /\ db' = r.db
          /\ out' = r.out
          /\ windows' = windows \o r.deltas
    /\ tick' = [tick EXCEPT !.pc = "idle"]
    /\ race' = IF inp.pc \in {"idle", "dead"} THEN race ELSE NoRace
    /\ UNCHANGED << now, percent, plugged, world, inp, commands >>
    /\ UNCHANGED << cycleNotifs, tickNotifs, prevTick, dismissedSince, scen, sn,
                    sinceBelow >>

\* a handler starts: the command is noted if a tick is in progress and it is
\* the first to overlap it
Overlap(cmd) ==
    IF tick.pc = "idle" \/ ~race.on THEN NoRace
    ELSE IF race.cmd = << >> THEN [race EXCEPT !.cmd = << cmd >>]
    ELSE NoRace

\* a step of a handler that turns context c into r and goes on at pc
InputStep(r, pc) ==
    /\ mon' = r.mon
    /\ out' = r.out
    /\ inp' = IF r.raised THEN [pc |-> "dead"] ELSE [pc |-> pc]
    /\ UNCHANGED << now, percent, plugged, world, db, tick >>
    /\ UNCHANGED ghosts

InputStart(cmd) ==
    /\ inp.pc = "idle"
    /\ commands < MaxCommands
    /\ commands' = commands + 1
    /\ race' = Overlap(cmd)

InputGoesOn(pc) ==
    /\ inp.pc = pc
    /\ UNCHANGED << commands, race >>

\* _handle_snooze, line 617 and lines 618-619
c_snooze_until ==
    /\ InputStart([name |-> "snooze"])
    /\ InputStep(snooze_set_until(Ctx, now), "snooze_active")

c_snooze_active ==
    /\ InputGoesOn("snooze_active")
    /\ InputStep(snooze_clear_active(Ctx), "idle")

\* _handle_dismiss, lines 623-627, 629 and 630-631
c_dismiss_read ==
    /\ InputStart([name |-> "dismiss"])
    /\ IF plugged
       THEN InputStep(dismiss_refused(Ctx), "idle")
       ELSE InputStep(Ctx, "dismiss_set")

c_dismiss_set ==
    /\ InputGoesOn("dismiss_set")
    /\ InputStep(dismiss_set_dismissed(Ctx), "dismiss_active")

c_dismiss_active ==
    /\ InputGoesOn("dismiss_active")
    /\ InputStep(dismiss_clear_active(Ctx), "idle")

\* _update_threshold, lines 235-237 and 239-256
c_update_set(n) ==
    /\ InputStart([name |-> "set", n |-> n])
    /\ InputStep(update_set_threshold(Ctx, n), "update_rest")

c_update_rest ==
    /\ InputGoesOn("update_rest")
    /\ InputStep(update_restart_or_alert(Ctx, variant, percent, now), "idle")

NextThreads ==
    \/ \E dt \in Gaps, p \in Percents, pl \in BOOLEAN : time_passes(dt, p, pl)
    \/ t_read
    \/ t_rearm
    \/ t_snooze
    \/ t_guard
    \/ t_trigger
    \/ t_mark
    \/ t_minute
    \/ c_snooze_until
    \/ c_snooze_active
    \/ c_dismiss_read
    \/ c_dismiss_set
    \/ c_dismiss_active
    \/ \E n \in SetInputs : c_update_set(n)
    \/ c_update_rest

SpecThreads == Init /\ [][NextThreads]_vars

\* Runs of the polling loop alone: no command is ever typed.
InitTicks == InitWith(ScenarioPercents)

NextTicks ==
    \/ \E dt \in Gaps, p \in ScenarioPercents, pl \in BOOLEAN : time_passes(dt, p, pl)
    \/ monitor_loop

SpecTicks == InitTicks /\ [][NextTicks]_vars

\* ----------------------------------------------------------- vocabulary

IsAlert(x) == x \in {"trigger_alert", "beep"}

\* the step emitted an alert of any kind
Alerted(o) == \E i \in DOMAIN o : IsAlert(o[i])

\* the step called the notification sink
Notified(o) == Triggers(o) > 0

\* the last step was a polling tick: it ended with the status line
LastWasTick == out # << >> /\ out[Len(out)] = "line"

\* the alert states of the design, read off the monitor's fields
AlertState(m, t) ==
    IF m.dismissed_until_below THEN "Dismissed"
    ELSE IF is_snoozed(m, t) THEN "Snoozed"
    ELSE IF m.alert_active THEN "Alerting"
    ELSE "BelowThreshold"

\* ------------------------------------------------------------------- C1

\* C1 as stated: in every arm-cycle (from one re-arm, the reading dropping
\* from at/above threshold to below it, to the next) the notification sink is
\* invoked at most once, whatever ticks and commands occur.
C1_Original == cycleNotifs <= 1

\* C1 as amended: after a tick has invoked the sink, no tick invokes it again
\* until a re-arm or a snooze command; every snooze allows one more.
C1_OncePerArmOrSnooze == tickNotifs <= 1

\* two sink calls in one arm-cycle, the second after a snooze
C1_Witness == cycleNotifs = 2 /\ tickNotifs = 1 /\ LastWasTick /\ Notified(out)

\* ------------------------------------------------------------------- C2

\* C2: once a dismiss has taken effect, no step (tick or command) emits an
\* alert until a tick has seen the reading below threshold.
C2_Original == [][dismissedSince => ~Alerted(out')]_vars

\* ------------------------------------------------------------------- C3

\* the scenario: threshold 80, charging readings 78, 79, 80, 81 one per tick
\* from the initial state; scen.at holds the times of the ticks so far
C3_Scenario ==
    scen.on =>
        IF Len(scen.at) < 3
        THEN mon.reached_time = None /\ cycleNotifs = 0 /\ ~mon.alert_active
        ELSE /\ mon.reached_time = Some(scen.at[3])
             /\ cycleNotifs = 1
             /\ AlertState(mon, now) = "Alerting"

\* in general, with ticks alone: the first tick of an arm-cycle that sees
\* charging at/above threshold stamps reached_time and notifies in that tick;
\* the later ones of the cycle do neither
C3_General ==
    [][(monitor_loop /\ plugged /\ percent >= mon.threshold_percent) =>
         IF cycleNotifs = 0
         THEN mon'.reached_time = Some(now) /\ Notified(out')
         ELSE mon'.reached_time = mon.reached_time /\ ~Notified(out')]_vars

SnoozeLapsed(t) == t >= Val(sn) + SnoozeSeconds

\* C4: after a snooze issued while Alerting at T, the reading staying
\* charging at/above threshold (so no re-arm in between), no tick before T+60
\* notifies, and the first tick at or after T+60 notifies.
C4_Original ==
    [][(monitor_loop /\ sn # None) =>
         IF ~SnoozeLapsed(now) THEN ~Notified(out')
         ELSE (plugged /\ percent >= mon.threshold_percent) => Notified(out')]_vars

\* ------------------------------------------------------------------- C5

\* C5: a dismiss typed while the reading reports charging changes nothing
\* (the monitor's fields stay as they are, the state stays as it was), and
\* dismissal only ever takes effect when the reading is not charging.
C5_DismissRejectedWhileCharging ==
    [][handle_dismiss =>
         IF plugged
         THEN mon' = mon /\ out' = << "cannot_dismiss" >>
         ELSE mon'.dismissed_until_below]_vars

\* a dismiss has just been refused while Alerting
C5_Witness ==
    out = << "cannot_dismiss" >> /\ plugged /\ AlertState(mon, now) = "Alerting"

\* ------------------------------------------------------------------- C6

\* C6: a snooze typed in any state but Alerting leaves snooze_until and
\* alert_active as they are.
C6_Original ==
    [][(handle_snooze /\ AlertState(mon, now) # "Alerting") =>
         /\ mon'.snooze_until = mon.snooze_until
         /\ mon'.alert_active = mon.alert_active]_vars

\* ------------------------------------------------------------------- C7

\* C7, in the form a finite run refutes: once a tick has seen the reading
\* below threshold, and no command was typed while the reading was at/above
\* threshold since, a tick that sees charging at/above threshold outside a
\* snooze leaves the alert active (it notifies unless the alert already is).
C7_Original ==
    [][(/\ monitor_loop
        /\ sinceBelow = "quiet"
        /\ plugged /\ percent >= mon.threshold_percent
        /\ ~is_snoozed(mon, now)) => mon'.alert_active]_vars

\* ------------------------------------------------------------------- C8

\* the alert state of the claim
AlertFields(m) ==
    << m.alert_active, m.snooze_until, m.dismissed_until_below, m.reached_time,
       m.threshold_percent >>

\* the command as one whole handler, on the reading of the tick
Command(c, cmd, p, pl, t) ==
    IF cmd.name = "snooze" THEN snooze_body(c, t)
    ELSE IF cmd.name = "dismiss" THEN dismiss_body(c, pl)
    ELSE update_threshold_body(c, variant, cmd.n, p, t)

Before(c) == [c EXCEPT !.out = << >>, !.raised = FALSE]

\* the tick that has just ended, and the one command that ran within it
RaceStart == [mon |-> race.mon0, db |-> race.db0, out |-> << >>,
              deltas |-> << >>, raised |-> FALSE]

CommandThenTick ==
    tick_body(Before(Command(RaceStart, Val(race.cmd), race.p, race.pl, race.t)),
              race.p, race.pl, race.t)

TickThenCommand ==
    Command(Before(tick_body(RaceStart, race.p, race.pl, race.t)),
            Val(race.cmd), race.p, race.pl, race.t)

\* C8: when a tick ends within which one command ran from start to end, the
\* alert state is the one of the command applied wholly before the tick or
\* wholly after it.
C8_Original ==
    (tick.pc = "idle" /\ race.on /\ race.cmd # << >>) =>
        \/ AlertFields(mon) = AlertFields(CommandThenTick.mon)
        \/ AlertFields(mon) = AlertFields(TickThenCommand.mon)

\* ------------------------------------------------------------------- C9

\* the re-arm reset took place in this step
ResetTookPlace ==
    \/ mon.dismissed_until_below /\ ~mon'.dismissed_until_below
    \/ mon.alert_active /\ ~mon'.alert_active
    \/ mon.reached_time # None /\ mon'.reached_time = None

\* C9: a tick resets only when the previous tick's reading was not below
\* threshold and this one is; a second below-threshold tick in a row leaves
\* reached_time, dismissed and alert_active as they are.
C9_RearmIdempotent ==
    [][monitor_loop =>
         /\ ResetTookPlace => RearmObserved(percent)
         /\ (prevTick.below = "yes" /\ percent < mon.threshold_percent) =>
               /\ mon'.reached_time = mon.reached_time
               /\ mon'.dismissed_until_below = mon.dismissed_until_below
               /\ mon'.alert_active = mon.alert_active]_vars

\* two below-threshold ticks in a row have kept a dismissal
C9_Witness == LastWasTick /\ prevTick.run = 2 /\ mon.dismissed_until_below

\* ------------------------------------------------------------------ C10

\* C10: after every tick the estimator has emitted floor(elapsed/60) minute
\* deltas since the start (time 0), and the k-th covers [60(k-1), 60k).
\* (Checked for every spacing of the ticks, so also for those under 60 s.)
C10_OneDeltaPerMinute ==
    LastWasTick =>
        /\ Len(windows) = now \div MinuteSeconds
        /\ Len(mon.per_minute_diffs) = Len(windows)
        /\ \A k \in DOMAIN windows :
              /\ windows[k].windowStart = MinuteSeconds * (k - 1)
              /\ windows[k].windowEnd = MinuteSeconds * k
              /\ windows[k].value = mon.per_minute_diffs[k]

\* two minutes have been covered
C10_Witness == LastWasTick /\ Len(windows) = 2 /\ now >= 2 * MinuteSeconds

\* ------------------------------------------------- the charge-time estimate

\* A delta history holds at most this many minute deltas.
MaxDiffs == 2

\* the values a minute delta takes (percent per minute)
DiffValues == {-1, 0, 2}

\* the readings, thresholds and clock values the estimate is asked with
EstimatePercents == {0, 50, 80, 100}

EstimateThresholds == {1, 80, 100}

EstimateTimes == {5, 10, 90}

\* the estimate needs this many seconds of session
MinSessionSeconds == 10

\* the target once the threshold is reached
FullPercent == 100

DiffHistories == UNION {[1..n -> DiffValues] : n \in 0..MaxDiffs}

Abs(n) == IF n < 0 THEN -n ELSE n

\* int(n / d): the quotient cut towards zero
Trunc(n, d) ==
    IF (n >= 0) = (d > 0) THEN Abs(n) \div Abs(d) ELSE -(Abs(n) \div Abs(d))

\* format_timedelta: "1h 2m 3s", "2m 3s" or "3s", as the numbers it prints
format_timedelta(total_seconds) ==
    LET hours == total_seconds \div 3600
        rem == total_seconds % 3600
        minutes == rem \div 60
        seconds == rem % 60
    IN IF hours # 0 THEN << hours, minutes, seconds >>
       ELSE IF minutes # 0 THEN << minutes, seconds >>
       ELSE << seconds >>

\* the rate per second as a fraction num/den: the average of the minute
\* deltas over 60 when there are any, else the session's overall rate
rate_per_second(m, current_percent, elapsed_seconds) ==
    IF m.per_minute_diffs # << >>
    THEN [num |-> SeqSum(m.per_minute_diffs),
          den |-> Len(m.per_minute_diffs) * 60]
    ELSE [num |-> current_percent - Val(m.start_percent),
          den |-> elapsed_seconds]

\* a mutant of rate_is_positive: only a zero rate gives no estimate
rate_is_nonzero(rate) == rate.num # 0

\* avg_per_minute <= 0, difference <= 0, rate_per_second <= 0: no estimate
rate_is_positive(rate) == rate.num > 0

\* a mutant of target_percent: the estimate always aims at a full battery
target_always_full(m, current_percent) == FullPercent

\* "Determine target: threshold if below, 100% if above"
target_percent(m, current_percent) ==
    IF current_percent < m.threshold_percent THEN m.threshold_percent
    ELSE FullPercent

\* _estimate_charge_time: None, or the formatted time to reach the target
estimate_charge_time(m, current_percent, pl, t) ==
    IF ~pl \/ m.start_time = None \/ m.start_percent = None THEN None
    ELSE LET elapsed_seconds == t - Val(m.start_time)
             rate == rate_per_second(m, current_percent, elapsed_seconds)
             remaining_percent == target_percent(m, current_percent) - current_percent
         IN IF elapsed_seconds < MinSessionSeconds THEN None
            ELSE IF ~rate_is_positive(rate) THEN None
            ELSE IF remaining_percent <= 0 THEN None
            ELSE Some(format_timedelta(Trunc(remaining_percent * rate.den, rate.num)))

\* the histories are empty
EmptyHistories ==
    /\ cycleNotifs = 0
    /\ tickNotifs = 0
    /\ prevTick = [below |-> "none", run |-> 0]
    /\ dismissedSince = FALSE
    /\ scen = ScenOff
    /\ sn = None
    /\ sinceBelow = "none"
    /\ windows = << >>
    /\ commands = 0
    /\ race = NoRace
    /\ closes = << >>

\* nothing has happened yet: both threads idle, the histories empty
NoHistory ==
    /\ tick = Idle
    /\ inp = Idle
    /\ devices = {}
    /\ LaptopOnly
    /\ EmptyHistories

\* the monitor of app.py in the middle of a session: any valid reading and
\* threshold, any delta history, a session started at 0 or none
InitEstimate ==
    /\ now \in EstimateTimes
    /\ percent \in EstimatePercents
    /\ plugged \in BOOLEAN
    /\ variant = "app"
    /\ \E th \in EstimateThresholds, session \in BOOLEAN,
          sp \in EstimatePercents, diffs \in DiffHistories :
         mon = [threshold_percent |-> th,
                start_time |-> IF session THEN Some(0) ELSE None,
                start_percent |-> IF session THEN Some(sp) ELSE None,
                reached_time |-> None,
                alerted |-> FALSE,
                alert_active |-> FALSE,
                snooze_until |-> None,
                dismissed_until_below |-> FALSE,
                last_below_threshold |-> percent < th,
                minute_anchor_time |-> Some(0),
                minute_anchor_percent |-> Some(percent),
                per_minute_diffs |-> diffs,
                active_charge_cycle |-> None]
    /\ db = << >>
    /\ out = << >>
    /\ NoHistory

\* the status line asks for the estimate; out holds what was returned
show_estimate ==
    /\ out = << >>
    /\ out' = << estimate_charge_time(mon, percent, plugged, now) >>
    /\ UNCHANGED << now, percent, plugged, world, mon, db, tick, inp,
                    commands, race >>
    /\ UNCHANGED ghosts

NextEstimate == show_estimate

SpecEstimate == InitEstimate /\ [][NextEstimate]_vars

\* ------------------------------------------------------------------ C11

\* what is left to the target, and the sign of the rate, from the inputs
Remaining == (IF percent < mon.threshold_percent THEN mon.threshold_percent
              ELSE 100) - percent

RateKnown == mon.per_minute_diffs # << >> \/ mon.start_percent # None

RateSign ==
    IF mon.per_minute_diffs # << >> THEN SeqSum(mon.per_minute_diffs)
    ELSE percent - Val(mon.start_percent)

\* the seconds a printed duration stands for, when it is a proper duration
IsDuration(d) ==
    /\ Len(d) \in 1..3
    /\ \A i \in DOMAIN d : d[i] \in Nat
    /\ Len(d) >= 2 => d[Len(d)] < 60 /\ d[Len(d) - 1] < 60

Estimated == out # << >>

\* C11: the estimate returns no value whenever remaining <= 0 or the rate
\* is <= 0, and every value it returns is a finite, non-negative duration.
C11_NoEstimateWithoutRateOrRemaining ==
    Estimated =>
        /\ Remaining <= 0 => out[1] = None
        /\ (RateKnown /\ RateSign <= 0) => out[1] = None
        /\ out[1] # None => IsDuration(Val(out[1]))

\* an estimate of more than an hour was returned, from a delta history
C11_Witness ==
    /\ Estimated
    /\ out[1] # None
    /\ Len(Val(out[1])) = 3
    /\ mon.per_minute_diffs # << >>

\* ------------------------------------------------ the adaptive poll delay

\* the readings, targets and base intervals the poller is asked with
PollPercents == 65..85

PollTargets == {70, 80}

BaseIntervals == {5, 30}

\* a mutant of very_close: the 10 s delay only within less than 2 percent
very_close_strict(remaining) == remaining < 2

very_close(remaining) == remaining <= 2

\* get_adaptive_poll_interval
get_adaptive_poll_interval(current_percentage, target_percentage, base_interval) ==
    IF current_percentage >= target_percentage THEN base_interval
    ELSE LET remaining == target_percentage - current_percentage
         IN IF very_close(remaining) THEN 10
            ELSE IF remaining <= 5 THEN 15
            ELSE IF remaining <= 10 THEN 20
            ELSE base_interval

\* the end of an iteration: the delay before the next poll
poll_interval(m, p) ==
    IF m.enable_adaptive_polling
    THEN get_adaptive_poll_interval(p, m.threshold_percent, m.poll_interval_seconds)
    ELSE m.poll_interval_seconds

\* a monitor with its base interval and its profile's adaptive polling flag
InitPoll ==
    /\ now = 0
    /\ percent \in PollPercents
    /\ plugged = TRUE
    /\ variant = "enhanced"
    /\ \E th \in PollTargets, base \in BaseIntervals, adaptive \in BOOLEAN :
         mon = [threshold_percent |-> th,
                poll_interval_seconds |-> base,
                enable_adaptive_polling |-> adaptive,
                start_time |-> Some(now),
                start_percent |-> Some(percent),
                reached_time |-> None,
                alerted |-> FALSE,
                alert_active |-> FALSE,
                snooze_until |-> None,
                dismissed_until_below |-> FALSE,
                last_below_threshold |-> TRUE,
                minute_anchor_time |-> Some(now),
                minute_anchor_percent |-> Some(percent),
                per_minute_diffs |-> << >>,
                active_charge_cycle |-> None]
    /\ db = << >>
    /\ out = << >>
    /\ NoHistory

\* the iteration picks its delay
pick_poll_interval ==
    /\ tick.pc = "idle"
    /\ tick' = [pc |-> "sleep", poll_interval |-> poll_interval(mon, percent)]
    /\ UNCHANGED << now, percent, plugged, world, mon, db, out, inp,
                    commands, race >>
    /\ UNCHANGED ghosts

\* and sleeps for it
sleep ==
    /\ tick.pc = "sleep"
    /\ now' = now + tick.poll_interval
    /\ tick' = [pc |-> "slept"]
    /\ UNCHANGED << percent, plugged, world, mon, db, out, inp, commands, race >>
    /\ UNCHANGED ghosts

NextPoll == pick_poll_interval \/ sleep

SpecPoll == InitPoll /\ [][NextPoll]_vars

\* ------------------------------------------------------------------ C12

\* the delay of the lookup table
TableDelay(current, target, baseInterval) ==
    CASE current >= target -> baseInterval
      [] target - current \in 1..2 -> 10
      [] target - current \in 3..5 -> 15
      [] target - current \in 6..10 -> 20
      [] OTHER -> baseInterval

MaxRuns == 2

\* the seconds between two polls of these runs
CycleGaps == {60}

\* psutil's battery is reported under this device id
LaptopId == "laptop_default"

\* __init__ and the first lines of start(): the monitoring state of a run
\* that starts at time t on the reading p
new_monitor(th, p, t) ==
    [threshold_percent |-> th,
     stop_event |-> FALSE,
     start_time |-> Some(t),
     start_percent |-> Some(p),
     reached_time |-> None,
     alerted |-> FALSE,
     alert_active |-> FALSE,
     snooze_until |-> None,
     dismissed_until_below |-> FALSE,
     last_below_threshold |-> TRUE,
     minute_anchor_time |-> Some(t),
     minute_anchor_percent |-> Some(p),
     per_minute_diffs |-> << >>,
     active_charge_cycle |-> None]

\* DatabaseManager.start_charge_cycle: a new row, not completed
db_start_charge_cycle(rows, device_id, start_percentage, target_percentage) ==
    Append(rows, [device_id |-> device_id,
                  start_percentage |-> start_percentage,
                  target_percentage |-> target_percentage,
                  end_percentage |-> None,
                  min_delta_1m |-> None,
                  max_delta_1m |-> None,
                  avg_delta_1m |-> None,
                  completed |-> FALSE])

\* _start_charge_cycle: the database raises for a device it does not know,
\* which is caught and printed
start_charge_cycle(c, devs, device_id, start_percentage) ==
    IF device_id \in devs
    THEN [c EXCEPT !.db = db_start_charge_cycle(c.db, device_id, start_percentage,
                                                c.mon.threshold_percent),
                   !.mon.active_charge_cycle = Some(Len(c.db) + 1)]
    ELSE print(c, "error_starting_cycle")

\* start() up to the polling loop
start_body(c, devs, th, p, pl, t) ==
    LET fresh == [c EXCEPT !.mon = new_monitor(th, p, t)]
        r == IF pl THEN start_charge_cycle(fresh, devs, LaptopId, p) ELSE fresh
    IN print(r, "started")

\* a mutant of stop_body: the stop event is set and the cycle left as it is
stop_leaves_cycle(c, p) ==
    print([c EXCEPT !.mon.stop_event = TRUE], "stopping")

\* stop()
stop_body(c, p) ==
    print(end_charge_cycle([c EXCEPT !.mon.stop_event = TRUE], p), "stopping")

\* no process runs; the database has no cycle yet, and knows the laptop if
\* an earlier run polled it
InitCycles ==
    /\ now = 0
    /\ percent \in Percents
    /\ plugged \in BOOLEAN
    /\ variant = "enhanced"
    /\ \E th \in InitThresholds : mon = new_monitor(th, percent, now)
    /\ db = << >>
    /\ devices \in {{}, {LaptopId}}
    /\ out = << >>
    /\ tick = [pc |-> "down", run |-> 0]
    /\ inp = Idle
    /\ LaptopOnly
    /\ EmptyHistories

\* the program is started: main() builds the monitor and calls start()
start ==
    /\ tick.pc = "down"
    /\ tick.run < MaxRuns
    /\ \E th \in InitThresholds :
         LET r == start_body(Ctx, devices, th, percent, plugged, now)
         IN /\ mon' = r.mon
            /\ db' = r.db
            /\ out' = r.out
    /\ tick' = [pc |-> "idle", run |-> tick.run + 1]
    /\ inp' = Idle
    /\ cycleNotifs' = 0
    /\ tickNotifs' = 0
    /\ prevTick' = [below |-> "none", run |-> 0]
    /\ dismissedSince' = FALSE
    /\ scen' = ScenOff
    /\ sn' = None
    /\ sinceBelow' = "none"
    /\ windows' = << >>
    /\ closes' = << >>
    /\ UNCHANGED << now, percent, plugged, variant, devices, source, owner,
                    commands, race >>

\* one whole iteration of _monitor_loop, which registers the device it read
\* (of the histories, these runs keep the deltas)
monitor_iteration ==
    /\ tick.pc = "idle"
    /\ inp.pc \in {"idle", "dead"}
    /\ devices' = devices \cup {LaptopId}
    /\ LET r == tick_body(Ctx, percent, plugged, now)
       IN /\ mon' = r.mon
          /\ db' = r.db
          /\ out' = r.out
          /\ windows' = windows \o r.deltas
    /\ UNCHANGED << now, percent, plugged, variant, closes, source, owner, tick,
                    inp, commands, race >>
    /\ UNCHANGED << cycleNotifs, tickNotifs, prevTick, dismissedSince, scen, sn,
                    sinceBelow >>

\* a handler run r of stop() that leaves the polling thread at pc
Stops(r, pc) ==
    /\ mon' = r.mon
    /\ db' = r.db
    /\ out' = r.out
    /\ tick' = [tick EXCEPT !.pc = pc]
    /\ inp' = [pc |-> "done"]
    /\ closes' = IF mon.active_charge_cycle # None /\ r.mon.active_charge_cycle = None
                 THEN Append(closes, [cycle |-> Val(mon.active_charge_cycle),
                                      by |-> "stop"])
                 ELSE closes
    /\ UNCHANGED << now, percent, plugged, variant, devices, source, owner,
                    commands, race >>
    /\ UNCHANGED ghosts

\* the user types "quit": the input thread calls stop() and ends
quit ==
    /\ tick.pc = "idle"
    /\ inp.pc = "idle"
    /\ Stops(stop_body(Ctx, percent), "exiting")

\* the loop finds the stop event set and start() ends with stop()
shutdown ==
    /\ tick.pc = "exiting"
    /\ Stops(stop_body(Ctx, percent), "down")

\* Ctrl-C: KeyboardInterrupt in the loop, and start() ends with stop()
interrupt ==
    /\ tick.pc = "idle"
    /\ inp.pc \in {"idle", "dead"}
    /\ Stops(stop_body(Ctx, percent), "down")

NextCycles ==
    \/ start
    \/ \E dt \in CycleGaps, p \in Percents, pl \in BOOLEAN : time_passes(dt, p, pl)
    \/ monitor_iteration
    \/ handle_snooze
    \/ handle_dismiss
    \/ \E n \in SetInputs : update_threshold(n)
    \/ quit
    \/ shutdown
    \/ interrupt

SpecCycles == InitCycles /\ [][NextCycles]_vars

\* ------------------------------------------------------------------ C13

OpenCycles(device_id) ==
    {i \in DOMAIN db : db[i].device_id = device_id /\ ~db[i].completed}

DeltasSoFar == [k \in DOMAIN windows |-> windows[k].value]

Least(v) == CHOOSE m \in {v[k] : k \in DOMAIN v} : \A k \in DOMAIN v : m <= v[k]

Greatest(v) == CHOOSE m \in {v[k] : k \in DOMAIN v} : \A k \in DOMAIN v : m >= v[k]

\* the fraction avg is the mean of v
IsMean(avg, v) == avg.sum * Len(v) = SeqSum(v) * avg.len /\ avg.len > 0

ClosedNow(i) == (i \notin DOMAIN db \/ ~db[i].completed) /\ db'[i].completed

raise(c) == [c EXCEPT !.raised = TRUE]

\* One iteration of _monitor_loop when the sinks may raise.  The reading is
\* logged by add_reading before the alert logic, outside any try; the
\* notification manager logs to the same database inside play_sound, which
\* catches OSError and RuntimeError only.  With both calls succeeding this
\* is tick_body.
iteration_with_sinks(c, p, pl, t, persists, notifies) ==
    IF ~persists THEN raise(c)
    ELSE LET a == rearm_step(c, p)
             e == snooze_expiry_step(a, t)
             s == stamp_step(e, p, t)
             then == IF is_snoozed(a.mon, t) THEN a
                     ELSE IF ~reached(e.mon, p, pl) THEN e
                     ELSE IF s.mon.alert_active THEN s
                     ELSE IF notifies THEN mark_alert_step(trigger_alert(s))
                     ELSE raise(s)
         IN IF then.raised THEN then
            ELSE print(minute_step(then, p, t), "line")

\* An iteration; an exception leaves _monitor_loop and start(), whose
\* finally runs stop() before the traceback ends the program.
monitor_iteration_sinks ==
    /\ tick.pc = "idle"
    /\ inp.pc \in {"idle", "dead"}
    /\ devices' = devices \cup {LaptopId}
    /\ \E persists \in BOOLEAN, notifies \in BOOLEAN :
         LET r == iteration_with_sinks(Ctx, percent, plugged, now, persists, notifies)
             s == IF r.raised THEN print(stop_body(r, percent), "traceback") ELSE r
         IN /\ mon' = s.mon
            /\ db' = s.db
            /\ out' = s.out
            /\ windows' = windows \o s.deltas
            /\ tick' = IF r.raised THEN [tick EXCEPT !.pc = "down"] ELSE tick
            /\ inp' = IF r.raised THEN [pc |-> "done"] ELSE inp
    /\ UNCHANGED << now, percent, plugged, variant, closes, source, owner,
                    commands, race >>
    /\ UNCHANGED << cycleNotifs, tickNotifs, prevTick, dismissedSince, scen, sn,
                    sinceBelow >>

NextSinks ==
    \/ start
    \/ \E dt \in CycleGaps, p \in Percents, pl \in BOOLEAN : time_passes(dt, p, pl)
    \/ monitor_iteration_sinks
    \/ handle_snooze
    \/ handle_dismiss
    \/ \E n \in SetInputs : update_threshold(n)
    \/ quit
    \/ shutdown
    \/ interrupt

SpecSinks == InitCycles /\ [][NextSinks]_vars

\* ------------------------------------------------------------------ C15

\* the step was an iteration in which a sink raised
SinkRaised(o) == o # << >> /\ o[Len(o)] = "traceback"

\* C15: a sink that raises never aborts the tick nor stops the polling
\* loop: the tick ends with the alert state it has when the sink succeeds,
\* and the loop goes on.
C15_Original ==
    [][SinkRaised(out') =>
          /\ tick'.pc = "idle"
          /\ AlertFields(mon') =
                AlertFields(tick_body(Ctx, percent, plugged, now).mon)]_vars

\* ------------------------------------------------- the phone and the laptop

\* what adb reports of the phone, and psutil of the laptop: nothing (no
\* device attached, no battery sensor) or a level and a charging flag
PhoneSensors ==
    {None} \cup {Some([level |-> l, charging |-> ch]) : l \in Percents, ch \in BOOLEAN}

LaptopSensors ==
    {None} \cup {Some([percent |-> p, power_plugged |-> pl]) :
                    p \in Percents, pl \in BOOLEAN}

Sources == [phone : PhoneSensors, laptop : LaptopSensors]

PhoneId == "phone_1"

\* the laptop's device id: app.py has none
laptop_device_id(v) == IF v = "enhanced" THEN Some(LaptopId) ELSE None

\* a mutant of get_battery_info: without the "batt is None" branch, the
\* read of batt.percent raises
get_battery_info_unguarded(src, v) ==
    IF src.phone # None /\ Val(src.phone).charging
    THEN [percent |-> Val(src.phone).level, plugged |-> TRUE,
          device_type |-> "phone", device_id |-> Some(PhoneId), raised |-> FALSE]
    ELSE IF src.laptop = None
    THEN [percent |-> 0, plugged |-> FALSE, device_type |-> "laptop",
          device_id |-> laptop_device_id(v), raised |-> TRUE]
    ELSE [percent |-> Val(src.laptop).percent,
          plugged |-> Val(src.laptop).power_plugged,
          device_type |-> "laptop", device_id |-> laptop_device_id(v),
          raised |-> FALSE]

\* _get_battery_info: the phone if it is attached and charging, else the
\* laptop, and 0 percent on battery when there is no sensor
get_battery_info(src, v) ==
    IF src.phone # None /\ Val(src.phone).charging
    THEN [percent |-> Val(src.phone).level, plugged |-> TRUE,
          device_type |-> "phone", device_id |-> Some(PhoneId), raised |-> FALSE]
    ELSE IF src.laptop = None
    THEN [percent |-> 0, plugged |-> FALSE, device_type |-> "laptop",
          device_id |-> laptop_device_id(v), raised |-> FALSE]
    ELSE [percent |-> Val(src.laptop).percent,
          plugged |-> Val(src.laptop).power_plugged,
          device_type |-> "laptop", device_id |-> laptop_device_id(v),
          raised |-> FALSE]

\* the ids a reading registers
Registered(info) == IF info.device_id = None THEN {} ELSE {Val(info.device_id)}

\* start() on a new database: no device is known yet, so no cycle opens
InitSources ==
    /\ now = 0
    /\ source \in Sources
    /\ variant \in {"app", "enhanced"}
    /\ LET info == get_battery_info(source, variant)
       IN /\ percent = info.percent
          /\ plugged = info.plugged
          /\ owner = info.device_type
          /\ \E th \in InitThresholds : mon = new_monitor(th, info.percent, now)
    /\ db = << >>
    /\ devices = {}
    /\ out = << >>
    /\ tick = Idle
    /\ inp = Idle
    /\ EmptyHistories

\* time passes and the sensors change
sensors_change(dt, src) ==
    /\ tick.pc = "idle"
    /\ now + dt <= MaxMinutes * MinuteSeconds
    /\ now' = now + dt
    /\ source' = src
    /\ out' = << >>
    /\ UNCHANGED << percent, plugged, variant, mon, db, tick, inp, commands, race,
                    devices, closes, owner >>
    /\ UNCHANGED ghosts

\* one whole iteration of _monitor_loop on what _get_battery_info returns;
\* an exception ends the loop and the program, after stop()
monitor_iteration_sources ==
    /\ tick.pc = "idle"
    /\ LET info == get_battery_info(source, variant)
           r == IF info.raised THEN raise(Ctx)
                ELSE tick_body(Ctx, info.percent, info.plugged, now)
           s == IF r.raised THEN print(stop_body(r, 0), "traceback") ELSE r
       IN /\ percent' = info.percent
          /\ plugged' = info.plugged
          /\ owner' = info.device_type
          /\ devices' = IF variant = "enhanced" THEN devices \cup Registered(info)
                        ELSE devices
          /\ mon' = s.mon
          /\ db' = s.db
          /\ out' = s.out
          /\ windows' = windows \o s.deltas
          /\ tick' = IF r.raised THEN [pc |-> "down"] ELSE tick
    /\ UNCHANGED << now, variant, source, closes, inp, commands, race >>
    /\ UNCHANGED << cycleNotifs, tickNotifs, prevTick, dismissedSince, scen, sn,
                    sinceBelow >>

NextSources ==
    \/ \E dt \in CycleGaps, src \in Sources : sensors_change(dt, src)
    \/ monitor_iteration_sources

SpecSources == InitSources /\ [][NextSources]_vars

\* ------------------------------------------------------------------ C16

\* no battery sensor, and no charging phone to read in its place
Unavailable(src) ==
    src.laptop = None /\ (src.phone = None \/ ~Val(src.phone).charging)

\* C16: a poll that finds no battery sensor is not fatal: the tick
\* completes (as a reading of 0 percent on battery) and the loop goes on,
\* wherever the Unavailable results come in the sequence of readings.
C16_UnavailableIsNotFatal ==
    [][(Unavailable(source) /\ out' # << >>) =>
          /\ out'[Len(out')] = "line"
          /\ tick'.pc = "idle"
          /\ percent' = 0
          /\ ~plugged']_vars

\* the sensor was there at the start and is missing two minutes later: the
\* tick has completed, with the minute deltas of both minutes
C16_Witness ==
    /\ Unavailable(source)
    /\ LastWasTick
    /\ tick.pc = "idle"
    /\ percent = 0
    /\ Val(mon.start_percent) = 80
    /\ Len(windows) = 2

\* ------------------------------------------------------- the typed lines

\* the characters typed: decimal digits, a sign, a letter, and superscript
\* two, a digit to str.isdigit that int() does not take
DecimalChars == {"0", "9"}

\* the arguments typed: 0, 90, 900, -9, a, 9a, superscript two, 9 squared
Words ==
    {<< "0" >>, << "9", "0" >>, << "9", "0", "0" >>, << "-", "9" >>, << "a" >>,
     << "9", "a" >>, << "sup2" >>, << "9", "sup2" >>}

\* a line, stripped and split at white space: its first word in lower
\* case, and the words after it
Lines ==
    [cmd : {"set"}, args : {<< >>} \cup {<< w >> : w \in Words}
                           \cup {<< w, << "0" >> >> : w \in {<< "9" >>, << "a" >>}}]
    \cup [cmd : {"snooze", "dismiss", "status"}, args : {<< >>, << << "9" >> >>}]

\* str.isdigit: not empty, every character a digit (superscripts included)
isdigit(w) == w # << >> /\ \A i \in DOMAIN w : w[i] \in DecimalChars \cup {"sup2"}

\* int(w) raises ValueError unless w is a decimal literal
int_raises(w) == \E i \in DOMAIN w : w[i] \notin DecimalChars

digit_value(ch) == IF ch = "9" THEN 9 ELSE 0

RECURSIVE int(_)
int(w) ==
    IF w = << >> THEN 0
    ELSE 10 * int(SubSeq(w, 1, Len(w) - 1)) + digit_value(w[Len(w)])

\* one pass of _input_loop on the line read
input_body(c, v, line, p, pl, t) ==
    IF line.cmd = "set" /\ line.args # << >>
    THEN IF Len(line.args) = 1 /\ isdigit(line.args[1])
         THEN IF int_raises(line.args[1]) THEN raise(c)
              ELSE update_threshold_body(c, v, int(line.args[1]), p, t)
         ELSE print(c, "usage")
    ELSE IF line.cmd = "snooze" /\ line.args = << >> THEN snooze_body(c, t)
    ELSE IF line.cmd = "dismiss" /\ line.args = << >> THEN dismiss_body(c, pl)
    ELSE print(c, "unknown_command")

\* The user types a line.  An exception ends the input thread.
input_loop(line) ==
    /\ tick.pc = "idle"
    /\ inp.pc = "idle"
    /\ commands < MaxCommands
    /\ commands' = commands + 1
    /\ LET r == input_body(Ctx, variant, line, percent, plugged, now)
       IN /\ mon' = r.mon
          /\ out' = r.out
          /\ inp' = [pc |-> IF r.raised THEN "dead" ELSE "idle", user_input |-> line]
    /\ UNCHANGED << now, percent, plugged, world, db, tick, race >>
    /\ UNCHANGED ghosts

NextInput ==
    \/ \E dt \in CycleGaps, p \in Percents, pl \in BOOLEAN : time_passes(dt, p, pl)
    \/ monitor_loop
    \/ \E line \in Lines : input_loop(line)

SpecInput == Init /\ [][NextInput]_vars

\* ------------------------------------------------------------------ C17

\* a decimal number without sign
IsNumber(w) == w # << >> /\ \A i \in DOMAIN w : w[i] \in DecimalChars

WellFormed(line) ==
    \/ line.cmd = "set" /\ Len(line.args) = 1 /\ IsNumber(line.args[1])
    \/ line.cmd \in {"snooze", "dismiss"} /\ line.args = << >>

Typed == commands' # commands

\* C17: every set command leaves the threshold within 1..100, and a
\* malformed command (set with a non-numeric, negative, missing or extra
\* argument, or an unknown word) only prints a usage message and changes
\* no monitor state.
C17_Original ==
    [][Typed =>
          /\ mon'.threshold_percent \in 1..100
          /\ ~WellFormed(inp'.user_input) =>
                /\ mon' = mon
                /\ out' \in {<< "usage" >>, << "unknown_command" >>}
                /\ inp'.pc = "idle"]_vars

\* ------------------------------------- ending the cycle, step by step

\* stop() runs in the input thread (quit) and again in the main thread when
\* the loop has ended, and the tick ends the cycle too; _end_charge_cycle
\* tests _active_charge_cycle, calls the database and only then clears it,
\* with no lock.  Each thread keeps its reading (p, pl) and, while in
\* _end_charge_cycle, the place it returns to (ret).

\* the context of a run that starts at t on the reading p
Blank(th, p, t) ==
    [mon |-> new_monitor(th, p, t), db |-> << >>, out |-> << >>,
     deltas |-> << >>, raised |-> FALSE]

\* a run of the enhanced monitor on a database that knows the laptop
InitStop ==
    /\ now = 0
    /\ percent \in Percents
    /\ plugged \in BOOLEAN
    /\ variant = "enhanced"
    /\ devices = {LaptopId}
    /\ \E th \in InitThresholds :
         LET r == start_body(Blank(th, percent, now), devices, th, percent,
                             plugged, now)
         IN mon = r.mon /\ db = r.db
    /\ out = << >>
    /\ tick = Idle
    /\ inp = Idle
    /\ LaptopOnly
    /\ EmptyHistories

\* lines 575-585: the aggregates, and the database's end_charge_cycle on
\* the id read for the call (None when another thread has cleared it)
end_db_step(c, end_percentage) ==
    LET d == c.mon.per_minute_diffs
        min_delta == IF d # << >> THEN Some(SeqMin(d)) ELSE None
        max_delta == IF d # << >> THEN Some(SeqMax(d)) ELSE None
        avg_delta == IF d # << >>
                     THEN Some([sum |-> SeqSum(d), len |-> Len(d)])
                     ELSE None
    IN IF c.mon.active_charge_cycle = None THEN c
       ELSE [c EXCEPT !.db = db_end_charge_cycle(c.db, Val(c.mon.active_charge_cycle),
                                                 end_percentage, min_delta,
                                                 max_delta, avg_delta)]

\* line 586
end_clear_step(c) == [c EXCEPT !.mon.active_charge_cycle = None]

\* the three steps of _end_charge_cycle in the thread self
EndSteps(self, who, c) ==
    \/ /\ self.pc = "end_check"
       /\ UNCHANGED << mon, db, closes >>
    \/ /\ self.pc = "end_db"
       /\ mon' = mon
       /\ db' = end_db_step(c, self.p).db
       /\ closes' = IF mon.active_charge_cycle = None THEN closes
                    ELSE Append(closes, [cycle |-> Val(mon.active_charge_cycle),
                                         by |-> who])
    \/ /\ self.pc = "end_clear"
       /\ mon' = end_clear_step(c).mon
       /\ UNCHANGED << db, closes >>

\* where the thread goes on after such a step
EndNext(self) ==
    IF self.pc = "end_check"
    THEN (IF mon'.active_charge_cycle = None THEN self.ret ELSE "end_db")
    ELSE IF self.pc = "end_db" THEN "end_clear"
    ELSE self.ret

EndPcs == {"end_check", "end_db", "end_clear"}

\* what the steps below leave alone
StopFrame ==
    /\ UNCHANGED << now, percent, plugged, variant, devices, source, owner,
                    commands, race >>
    /\ UNCHANGED << cycleNotifs, tickNotifs, prevTick, dismissedSince, scen, sn,
                    sinceBelow >>

\* the loop takes its reading (lines 262-268)
k_read ==
    /\ tick.pc = "idle"
    /\ ~mon.stop_event
    /\ tick' = [pc |-> "rearm", p |-> percent, pl |-> plugged, ret |-> "rearm"]
    /\ UNCHANGED << mon, db, out, inp, windows, closes >>
    /\ StopFrame

\* lines 320-329: the re-arm's resets, up to its call of _end_charge_cycle
k_rearm ==
    /\ tick.pc = "rearm"
    /\ LET current_below == tick.p < mon.threshold_percent
           fires == current_below /\ ~mon.last_below_threshold
       IN /\ mon' = IF fires
                    THEN [mon EXCEPT !.dismissed_until_below = FALSE,
                                     !.alerted = FALSE,
                                     !.alert_active = FALSE,
                                     !.reached_time = None]
                    ELSE mon
          /\ tick' = IF fires /\ mon.active_charge_cycle # None
                     THEN [tick EXCEPT !.pc = "end_check", !.ret = "last_below"]
                     ELSE [tick EXCEPT !.pc = "last_below"]
    /\ UNCHANGED << db, out, inp, windows, closes >>
    /\ StopFrame

\* lines 330-346: last_below, the snooze test and the stamp of the reach,
\* up to its call of _end_charge_cycle
k_last_below ==
    /\ tick.pc = "last_below"
    /\ LET c == [Ctx EXCEPT !.mon.last_below_threshold =
                                tick.p < mon.threshold_percent]
           e == snooze_expiry_step(c, now)
           stamps == /\ ~is_snoozed(c.mon, now)
                     /\ reached(e.mon, tick.p, tick.pl)
                     /\ e.mon.reached_time = None
       IN /\ mon' = IF stamps THEN [e.mon EXCEPT !.reached_time = Some(now)]
                    ELSE c.mon
          /\ tick' = IF stamps /\ mon.active_charge_cycle # None
                     THEN [tick EXCEPT !.pc = "end_check", !.ret = "alert"]
                     ELSE [tick EXCEPT !.pc = "alert"]
    /\ UNCHANGED << db, out, inp, windows, closes >>
    /\ StopFrame

\* lines 347-395: the alert, the minute tracking and the printed line
k_alert ==
    /\ tick.pc = "alert"
    /\ LET r == print(minute_step(trigger_step(Ctx, tick.p, tick.pl, now),
                                  tick.p, now), "line")
       IN /\ mon' = r.mon
          /\ db' = r.db
          /\ out' = r.out
          /\ windows' = windows \o r.deltas
    /\ tick' = Idle
    /\ UNCHANGED << inp, closes >>
    /\ StopFrame

\* a step of _end_charge_cycle in the main thread
k_end ==
    /\ tick.pc \in EndPcs
    /\ EndSteps(tick, IF tick.ret = "down" THEN "shutdown" ELSE "tick", Ctx)
    /\ tick' = [tick EXCEPT !.pc = EndNext(tick)]
    /\ out' = IF tick'.pc = "down" THEN << "stopping" >> ELSE out
    /\ UNCHANGED << inp, windows >>
    /\ StopFrame

\* stop() of the main thread, up to its call of _end_charge_cycle
k_stop(c) ==
    /\ mon' = [c.mon EXCEPT !.stop_event = TRUE]
    /\ tick' = IF mon.active_charge_cycle # None
               THEN [pc |-> "end_check", p |-> percent, pl |-> plugged,
                     ret |-> "down"]
               ELSE [pc |-> "down"]
    /\ out' = IF tick'.pc = "down" THEN << "stopping" >> ELSE out
    /\ UNCHANGED << db, inp, windows, closes >>
    /\ StopFrame

\* the loop finds the stop event set and start()'s finally calls stop()
k_exit ==
    /\ tick.pc = "idle"
    /\ mon.stop_event
    /\ k_stop(Ctx)

\* Ctrl-C in the main thread: start()'s finally calls stop()
k_interrupt ==
    /\ tick.pc = "idle"
    /\ ~mon.stop_event
    /\ k_stop(Ctx)

\* the input thread reads quit and calls stop(), up to its call of
\* _end_charge_cycle; the thread is a daemon and dies with the process
q_quit ==
    /\ inp.pc = "idle"
    /\ tick.pc # "down"
    /\ mon' = [mon EXCEPT !.stop_event = TRUE]
    /\ inp' = IF mon.active_charge_cycle # None
              THEN [pc |-> "end_check", p |-> percent, ret |-> "done"]
              ELSE [pc |-> "done"]
    /\ out' = IF inp'.pc = "done" THEN << "stopping" >> ELSE out
    /\ UNCHANGED << db, tick, windows, closes >>
    /\ StopFrame

\* a step of _end_charge_cycle in the input thread
q_end ==
    /\ inp.pc \in EndPcs
    /\ tick.pc # "down"
    /\ EndSteps(inp, "quit", Ctx)
    /\ inp' = [inp EXCEPT !.pc = EndNext(inp)]
    /\ out' = IF inp'.pc = "done" THEN << "stopping" >> ELSE out
    /\ UNCHANGED << tick, windows >>
    /\ StopFrame

NextStop ==
    \/ \E dt \in CycleGaps, p \in Percents, pl \in BOOLEAN : time_passes(dt, p, pl)
    \/ k_read
    \/ k_rearm
    \/ k_last_below
    \/ k_alert
    \/ k_end
    \/ k_exit
    \/ k_interrupt
    \/ q_quit
    \/ q_end

SpecStop == InitStop /\ [][NextStop]_vars

\* C18: under any interleaving of the tick's cycle-ending paths with stop()
\* called from the input thread and again from the loop's shutdown, the
\* database's end_charge_cycle runs at most once for each opened cycle.
C18_Original ==
    \A i \in DOMAIN db :
        Cardinality({k \in DOMAIN closes : closes[k].cycle = i}) <= 1

\* ------------------------------------------------------------- shutdown

\* stop() has run to its end in this step: after quit, after the loop has
\* ended, or on an interrupt
StopCompleted == tick.pc # tick'.pc /\ tick'.pc \in {"exiting", "down"}

DeviceSwitched == owner' # owner

\* C20: a reading of one device never updates the minute anchor, the delta
\* list or the alert flags that hold another device's data: a tick whose
\* reading comes from another device than the last one leaves them as they
\* are, reports no minute delta across the two devices and re-arms nothing.
C20_Original ==
    [][DeviceSwitched =>
          /\ mon'.minute_anchor_time = mon.minute_anchor_time
          /\ mon'.minute_anchor_percent = mon.minute_anchor_percent
          /\ mon'.per_minute_diffs = mon.per_minute_diffs
          /\ windows' = windows
          /\ mon'.alerted = mon.alerted
          /\ mon'.alert_active = mon.alert_active
          /\ mon'.dismissed_until_below = mon.dismissed_until_below
          /\ mon'.reached_time = mon.reached_time]_vars

\* ------------------------------------------------------------------ C21

\* C21: an alert (the sink's call of a tick, the beep of a threshold change)
\* is emitted only when, at that moment, the device is charging, the alert
\* is not dismissed, no snooze is pending and the percentage is at or above
\* the threshold.
C21_Original ==
    [][Alerted(out') =>
          /\ plugged'
          /\ ~mon'.dismissed_until_below
          /\ mon'.snooze_until = None
          /\ percent' >= mon'.threshold_percent]_vars

\* ------------------------------------------------------------------ C22

\* C22: the tick on which the reading goes from at/above threshold to below
\* it resets the alert to BelowThreshold whatever it was: after that tick
\* reached_time is None, dismissed and alert_active are false and no snooze
\* remains pending.
C22_Original ==
    [][(monitor_loop /\ RearmObserved(percent)) =>
          /\ mon'.reached_time = None
          /\ ~mon'.dismissed_until_below
          /\ ~mon'.alert_active
          /\ ~is_snoozed(mon', now')]_vars

\* ------------------------------------------------------------------ C23

\* C23: at every tick boundary a pending snooze, the dismissed flag and
\* alert_active are pairwise mutually exclusive, so that the flags encode
\* exactly one of BelowThreshold, Alerting, Snoozed and Dismissed.
C23_Original ==
    LastWasTick =>
        /\ ~(is_snoozed(mon, now) /\ mon.dismissed_until_below)
        /\ ~(is_snoozed(mon, now) /\ mon.alert_active)
        /\ ~(mon.dismissed_until_below /\ mon.alert_active)

\* ------------------------------------------------------------------ C24

\* C24: reached_time is assigned only by a tick that meets the threshold
\* while charging, and once assigned it is not overwritten by a tick or a
\* command: it changes only by being cleared on the tick where the reading
\* drops back below threshold.
C24_Original ==
    [][/\ (mon.reached_time = None /\ mon'.reached_time # None)
              => (monitor_loop /\ plugged /\ percent >= mon.threshold_percent)
       /\ (mon.reached_time # None /\ mon'.reached_time # mon.reached_time)
              => (monitor_loop /\ RearmObserved(percent)
                               /\ mon'.reached_time = None)]_vars

\* ------------------------------------------------------------------ C25

\* the step is the handling of a set command
SetCommand == \E n \in SetInputs : update_threshold(n)

\* C25: after a set command no minute delta recorded before the command
\* remains in the sequence the minimum, maximum, average and the estimate
\* are taken from.
C25_Original == [][SetCommand => mon'.per_minute_diffs = << >>]_vars

\* ------------------------------------------------- monitoring for a long time

\* The loop sleeps through long gaps (a long poll interval, the scheduler's
\* pause, suspend and resume) and the next tick records one delta for each
\* minute of the gap.

\* how long the monitor is left running, in minutes
LongRunMinutes == 1100

\* the gaps between two ticks, in seconds
LongGaps == {6000}

\* the readings after such a gap
LongRunPercents == {80}

\* the retained window of the design: the last 1000 entries
RetainedDeltas == 1000

\* the loop sleeps through a long gap, having ticked since the last one,
\* and the battery reading may change
long_gap(dt, p, pl, limit) ==
    /\ tick.pc = "idle"
    /\ now - Val(mon.minute_anchor_time) < MinuteSeconds
    /\ now + dt <= limit
    /\ now' = now + dt
    /\ percent' = p
    /\ plugged' = pl
    /\ out' = << >>
    /\ sn' = IF pl /\ p >= mon.threshold_percent THEN sn ELSE None
    /\ UNCHANGED << world, mon, db, tick, inp, commands, race >>
    /\ UNCHANGED << cycleNotifs, tickNotifs, prevTick, dismissedSince, scen,
                    sinceBelow, windows >>

NextLongRun ==
    \/ \E dt \in LongGaps, p \in LongRunPercents, pl \in BOOLEAN :
          long_gap(dt, p, pl, LongRunMinutes * MinuteSeconds)
    \/ monitor_loop

SpecLongRun == Init /\ [][NextLongRun]_vars

\* C26: the number of retained minute deltas never exceeds the fixed bound,
\* however long monitoring runs.
C26_Original == Len(mon.per_minute_diffs) <= RetainedDeltas

\* ------------------------------------------------------------------ C27

\* the seconds a printed duration stands for
DurationSeconds(d) ==
    IF Len(d) = 3 THEN 3600 * d[1] + 60 * d[2] + d[3]
    ELSE IF Len(d) = 2 THEN 60 * d[1] + d[2]
    ELSE d[1]

\* the rate of the reference algorithm, in percent per second, as the
\* fraction num/den: the average of the minute deltas over 60 when there is
\* at least one delta, else the rise of the session over its elapsed time
ReferenceRate ==
    IF Len(mon.per_minute_diffs) >= 1
    THEN [num |-> SeqSum(mon.per_minute_diffs),
          den |-> 60 * Len(mon.per_minute_diffs)]
    ELSE [num |-> percent - Val(mon.start_percent),
          den |-> now - Val(mon.start_time)]

\* the reference algorithm says "no estimate"
ReferenceNone ==
    \/ ~plugged
    \/ mon.start_time = None \/ mon.start_percent = None
    \/ now - Val(mon.start_time) < 10
    \/ ReferenceRate.num <= 0
    \/ Remaining <= 0

\* C27: the estimate equals the reference algorithm: none when not charging,
\* without a session, before 10 s of session, with a rate <= 0 or with
\* nothing remaining; otherwise the whole seconds of (target - current)
\* divided by the reference rate, the target being the threshold below it
\* and 100 from it on.
C27_EstimateIsReference ==
    Estimated =>
        IF ReferenceNone THEN out[1] = None
        ELSE /\ out[1] # None
             /\ IsDuration(Val(out[1]))
             /\ LET s == DurationSeconds(Val(out[1]))
                    r == ReferenceRate
                IN /\ s * r.num <= Remaining * r.den
                   /\ Remaining * r.den < (s + 1) * r.num

\* an estimate from the session's overall rate, aimed at the threshold
C27_Witness ==
    /\ Estimated
    /\ out[1] # None
    /\ mon.per_minute_diffs = << >>
    /\ percent < mon.threshold_percent
    /\ DurationSeconds(Val(out[1])) > 60

\* ------------------------------------------------ ticks any time apart

\* the clock of these runs stops after this many minutes
MaxGapMinutes == 5

\* the gaps between two ticks, in seconds: under a minute, and several
\* minutes (a long poll interval, the scheduler's pause, suspend and resume)
TickGaps == {45, 150}

NextGaps ==
    \/ \E dt \in TickGaps, p \in Percents, pl \in BOOLEAN :
          long_gap(dt, p, pl, MaxGapMinutes * MinuteSeconds)
    \/ monitor_loop

SpecGaps == Init /\ [][NextGaps]_vars

\* C28: whatever the spacing of the ticks, after every tick the anchor is at
\* the start of monitoring (time 0) plus 60 s for each minute delta recorded,
\* and less than 60 s behind the clock.
C28_AnchorInMinuteSteps ==
    LastWasTick =>
        /\ mon.minute_anchor_time = Some(MinuteSeconds * Len(mon.per_minute_diffs))
        /\ now - Val(mon.minute_anchor_time) < MinuteSeconds
        /\ now >= Val(mon.minute_anchor_time)

\* the first tick came 150 s after the start and recorded two deltas at once
C28_Witness ==
    /\ LastWasTick
    /\ now = 150
    /\ Len(mon.per_minute_diffs) = 2
    /\ mon.minute_anchor_time = Some(120)

\* ------------------------------------------- the charger during a session

\* The loop keeps the reading of its last iteration in its locals (percent,
\* plugged): tick.p and tick.pl, which start as the reading of start().

\* a run of the enhanced monitor on a database that knows the laptop
InitSession ==
    /\ now = 0
    /\ percent \in Percents
    /\ plugged \in BOOLEAN
    /\ variant = "enhanced"
    /\ devices = {LaptopId}
    /\ \E th \in InitThresholds :
         LET r == start_body(Blank(th, percent, now), devices, th, percent,
                             plugged, now)
         IN mon = r.mon /\ db = r.db
    /\ out = << >>
    /\ tick = [pc |-> "idle", p |-> percent, pl |-> plugged]
    /\ inp = Idle
    /\ LaptopOnly
    /\ EmptyHistories

\* one whole iteration of _monitor_loop
session_tick ==
    /\ tick.pc = "idle"
    /\ inp.pc = "idle"
    /\ LET r == tick_body(Ctx, percent, plugged, now)
       IN /\ mon' = r.mon
          /\ db' = r.db
          /\ out' = r.out
          /\ windows' = windows \o r.deltas
    /\ tick' = [pc |-> "idle", p |-> percent, pl |-> plugged]
    /\ UNCHANGED << now, percent, plugged, world, inp, commands, race >>
    /\ UNCHANGED << cycleNotifs, tickNotifs, prevTick, dismissedSince, scen, sn,
                    sinceBelow >>

NextSession ==
    \/ \E dt \in CycleGaps, p \in Percents, pl \in BOOLEAN : time_passes(dt, p, pl)
    \/ session_tick
    \/ handle_dismiss

SpecSession == InitSession /\ [][NextSession]_vars

\* ------------------------------------------------------------------ C29

\* the tick's reading is charging, the reading before it was not
ChargingStarted == session_tick /\ ~tick.pl /\ plugged

\* C29: whenever the charging flag flips to true while the reading is below
\* threshold and no cycle is open, the tick opens a new cycle with that
\* reading as start percentage and the current threshold as target.
C29_Original ==
    [][(/\ ChargingStarted
        /\ percent < mon.threshold_percent
        /\ mon.active_charge_cycle = None) =>
          /\ Len(db') = Len(db) + 1
          /\ mon'.active_charge_cycle = Some(Len(db'))
          /\ db'[Len(db')].start_percentage = percent
          /\ db'[Len(db')].target_percentage = mon.threshold_percent
          /\ ~db'[Len(db')].completed]_vars

\* ------------------------------------------------------------------ C30

\* the cycle the monitor holds open, if any, is completed after the step
CycleClosed ==
    mon.active_charge_cycle # None => db'[Val(mon.active_charge_cycle)].completed

\* the tick on which the threshold is first reached while charging
ThresholdReached ==
    /\ session_tick
    /\ plugged
    /\ percent >= mon.threshold_percent
    /\ mon.reached_time = None
    /\ ~mon.dismissed_until_below
    /\ ~is_snoozed(mon, now)

\* the tick whose reading shows the power removed
PowerRemoved == session_tick /\ tick.pl /\ ~plugged

\* a dismiss that is accepted
Dismissed == handle_dismiss /\ ~plugged

\* C30: an open cycle is closed on the tick on which the threshold is first
\* reached, on the tick whose reading shows the power removed, and by a
\* successful dismiss.
C30_Original ==
    [][(ThresholdReached \/ PowerRemoved \/ Dismissed) => CycleClosed]_vars

\* ------------------------------------------------ the predicted charge time

\* what a trained regression model predicts, in minutes
ModelMinutes == {-5, 30}

\* _simple_prediction: minutes as the fraction num/den, and the confidence
\* in tenths
simple_prediction(current_percentage, target_percentage, recent_delta_1m) ==
    IF current_percentage >= target_percentage
    THEN [minutes |-> Some([num |-> 0, den |-> 1]), confidence |-> 10]
    ELSE LET remaining == target_percentage - current_percentage
         IN IF recent_delta_1m # None /\ Val(recent_delta_1m) # 0
                                      /\ Val(recent_delta_1m) > 0
            THEN [minutes |-> Some([num |-> remaining, den |-> Val(recent_delta_1m)]),
                  confidence |-> 6]
            ELSE [minutes |-> Some([num |-> remaining, den |-> 1]),
                  confidence |-> 3]

\* predict_charge_time: the model's prediction cut at 0 when there is a
\* trained model and it does not raise, else _simple_prediction; the
\* confidence of a model with no training data in memory is 0.5
predict_charge_time(trained, predicted, raises, current, target, recent_delta_1m) ==
    IF ~trained \/ raises
    THEN simple_prediction(current, target, recent_delta_1m)
    ELSE [minutes |-> Some([num |-> IF predicted > 0 THEN predicted ELSE 0,
                            den |-> 1]),
          confidence |-> 5]

\* "recent_delta = self._per_minute_diffs[-1] if self._per_minute_diffs else None"
recent_delta(m) ==
    IF m.per_minute_diffs # << >>
    THEN Some(m.per_minute_diffs[Len(m.per_minute_diffs)])
    ELSE None

\* the enhanced monitor in the middle of a session: any reading and
\* threshold, any delta history
InitPredict ==
    /\ now \in EstimateTimes
    /\ percent \in EstimatePercents
    /\ plugged \in BOOLEAN
    /\ variant = "enhanced"
    /\ \E th \in EstimateThresholds, diffs \in DiffHistories :
         mon = [new_monitor(th, percent, 0) EXCEPT !.per_minute_diffs = diffs]
    /\ db = << >>
    /\ out = << >>
    /\ NoHistory

\* the status line asks for the prediction, below threshold and plugged in;
\* out holds what the predictor was asked and what it returned
show_prediction ==
    /\ out = << >>
    /\ percent < mon.threshold_percent
    /\ plugged
    /\ \E trained \in BOOLEAN, predicted \in ModelMinutes, raises \in BOOLEAN :
         LET r == predict_charge_time(trained, predicted, raises, percent,
                                      mon.threshold_percent, recent_delta(mon))
         IN out' = << [trained |-> trained,
                       recent_delta_1m |-> recent_delta(mon),
                       minutes |-> r.minutes,
                       confidence |-> r.confidence] >>
    /\ UNCHANGED << now, percent, plugged, world, mon, db, tick, inp,
                    commands, race >>
    /\ UNCHANGED ghosts

NextPredict == show_prediction

SpecPredict == InitPredict /\ [][NextPredict]_vars

\* ------------------------------------------------------------------ C31

\* no positive recent minute delta: none recorded, or one that is <= 0
NoPositiveDelta(d) == d = None \/ Val(d) <= 0

\* C31: with no positive recent minute delta and no trained model the
\* prediction returns no estimate, not a number of minutes.
C31_Original ==
    (out # << >> /\ ~out[1].trained /\ NoPositiveDelta(out[1].recent_delta_1m))
        => out[1].minutes = None

\* ------------------------------------------------------------------ C32

\* C32: the delay before the next poll is never longer than the base
\* interval, for every base interval from 5 s on and every current and
\* target percentage.
C32_Original ==
    tick.pc = "sleep" => tick.poll_interval <= mon.poll_interval_seconds

\* --------------------------------------------------- the loop and its stop

\* _monitor_loop statement by statement: the test of the stop event, the
\* scheduler's window, the iteration, and the sleep in chunks of half a
\* second, while the input thread may call stop() at any point.

\* the poll intervals of these runs, in seconds
LoopIntervals == {1, 2}

\* the 60 s the loop sleeps outside the scheduler's window, and the 0.5 s
\* of one chunk of the sleep between polls, in half seconds
PauseHalves == 120

ChunkHalves == 1

\* a mutant of loop_goes_on: the loop never looks at the stop event
loop_ignores_stop(m) == TRUE

\* "while not self._stop_event.is_set()"
loop_goes_on(m) == ~m.stop_event

\* start() with no device row in the database: no cycle is opened
InitLoop ==
    /\ now = 0
    /\ percent \in Percents
    /\ plugged \in BOOLEAN
    /\ variant \in {"app", "enhanced"}
    /\ devices = {}
    /\ \E th \in InitThresholds, s \in LoopIntervals :
         mon = new_monitor(th, percent, now) @@ [poll_interval_seconds |-> s]
    /\ db = << >>
    /\ out = << >>
    /\ tick = [pc |-> "test"]
    /\ inp = Idle
    /\ LaptopOnly
    /\ EmptyHistories

\* what the steps of the loop leave alone
LoopFrame ==
    /\ UNCHANGED << now, percent, plugged, world, inp, commands, race >>
    /\ UNCHANGED << cycleNotifs, tickNotifs, prevTick, dismissedSince, scen, sn,
                    sinceBelow >>

\* the head of the loop: it ends when the stop event is set; else the
\* enhanced monitor asks its scheduler, and pauses outside the window
loop_test ==
    /\ tick.pc = "test"
    /\ \E should_monitor_now \in BOOLEAN :
         tick' = IF ~loop_goes_on(mon) THEN [pc |-> "returned"]
                 ELSE IF variant = "enhanced" /\ ~should_monitor_now
                 THEN [pc |-> "paused", remaining |-> PauseHalves]
                 ELSE [pc |-> "tick"]
    /\ UNCHANGED << mon, db, out, windows >>
    /\ LoopFrame

\* time.sleep(60) outside the window, then "continue"
loop_pause ==
    /\ tick.pc = "paused"
    /\ tick' = [pc |-> "test"]
    /\ UNCHANGED << mon, db, out, windows >>
    /\ LoopFrame

\* the body of the iteration, up to the sleep
loop_tick ==
    /\ tick.pc = "tick"
    /\ LET r == tick_body(Ctx, percent, plugged, now)
       IN /\ mon' = r.mon
          /\ db' = r.db
          /\ out' = r.out
          /\ windows' = windows \o r.deltas
    /\ tick' = [pc |-> "sleep", remaining |-> 2 * mon.poll_interval_seconds]
    /\ LoopFrame

\* "while remaining > 0 and not self._stop_event.is_set()": one chunk of
\* the sleep, or the end of the sleep
loop_sleep ==
    /\ tick.pc = "sleep"
    /\ tick' = IF tick.remaining > 0 /\ loop_goes_on(mon)
               THEN [tick EXCEPT !.remaining = @ - ChunkHalves]
               ELSE [pc |-> "test"]
    /\ UNCHANGED << mon, db, out, windows >>
    /\ LoopFrame

\* the loop has returned: start()'s finally calls stop()
loop_returned ==
    /\ tick.pc = "returned"
    /\ LET r == stop_body(Ctx, percent)
       IN /\ mon' = r.mon
          /\ db' = r.db
          /\ out' = r.out
    /\ tick' = [pc |-> "down"]
    /\ UNCHANGED windows
    /\ LoopFrame

\* the clock goes on and the reading may change while the loop sleeps
loop_clock(dt, p, pl) ==
    /\ tick.pc \in {"sleep", "paused"}
    /\ now + dt <= MaxMinutes * MinuteSeconds
    /\ now' = now + dt
    /\ percent' = p
    /\ plugged' = pl
    /\ out' = << >>
    /\ UNCHANGED << world, mon, db, tick, inp, commands, race >>
    /\ UNCHANGED ghosts

\* the input thread reads quit and calls stop(), wherever the loop is
quit_typed ==
    /\ inp.pc = "idle"
    /\ tick.pc \notin {"returned", "down"}
    /\ LET r == stop_body(Ctx, percent)
       IN /\ mon' = r.mon
          /\ db' = r.db
          /\ out' = r.out
    /\ inp' = [pc |-> "done"]
    /\ UNCHANGED << now, percent, plugged, world, tick, commands, race >>
    /\ UNCHANGED ghosts

LoopThread ==
    loop_test \/ loop_pause \/ loop_tick \/ loop_sleep \/ loop_returned

NextLoop ==
    \/ loop_test
    \/ loop_pause
    \/ loop_tick
    \/ loop_sleep
    \/ loop_returned
    \/ \E dt \in CycleGaps, p \in Percents, pl \in BOOLEAN : loop_clock(dt, p, pl)
    \/ quit_typed

\* the main thread is scheduled and its sleeps end
SpecLoop == InitLoop /\ [][NextLoop]_vars /\ WF_vars(LoopThread)

\* ------------------------------------------------------------------ C33

\* an iteration starts: the loop passes its test and goes on to read
TickStarts == tick.pc = "test" /\ tick'.pc \in {"tick", "paused"}

\* C33: once the stop event is set no new iteration starts, and the loop
\* eventually terminates, whether the stop came in the middle of a tick,
\* during the sleep between polls or during the scheduler's pause.
C33_StopEndsLoop ==
    /\ [][TickStarts => ~mon.stop_event]_vars
    /\ (mon.stop_event ~> tick.pc \in {"returned", "down"})

\* the loop has ended after a quit typed before its first iteration ran:
\* at the test of the loop or during the scheduler's pause
C33_Witness ==
    /\ tick.pc = "down"
    /\ inp.pc = "done"
    /\ out = << "stopping" >>
    /\ windows = << >>

\* ------------------------------------------------------------------ C34

\* the last step was a set command that found the reading at or above the
\* new threshold and alerted at once
SetAlerted == \E i \in DOMAIN out : out[i] = "alerting_now"

\* C34 as stated: after a set command that alerted at once, the next tick
\* (still charging, still at or above the threshold, no command in between)
\* does not notify again.
C34_Original ==
    [][(monitor_loop /\ SetAlerted /\ plugged /\ percent >= mon.threshold_percent)
         => ~Notified(out')]_vars

\* ------------------------------------------------------------------ C35

\* C35 as stated: a tick whose reading is Unavailable leaves dismissed,
\* alert active and the reached time as they were.
C35_Original ==
    [][(monitor_iteration_sources /\ Unavailable(source)) =>
          /\ mon'.dismissed_until_below = mon.dismissed_until_below
          /\ mon'.alert_active = mon.alert_active
          /\ mon'.reached_time = mon.reached_time]_vars

\* ------------------------------------------------------------------ C36

\* n zeros
Zeros(n) == [i \in 1..n |-> 0]

\* the whole minutes between the anchor and the clock
MinutesSinceAnchor == (now - Val(mon.minute_anchor_time)) \div MinuteSeconds

\* C36: a tick that finds k >= 2 whole minutes since the anchor appends k
\* deltas, the first the reading minus the anchor percentage and the others
\* 0; and after every tick the deltas recorded add up to the anchor
\* percentage minus the percentage at the start of monitoring.
C36_SeveralMinutesAtOnce ==
    /\ [][(monitor_loop /\ MinutesSinceAnchor >= 2) =>
            mon'.per_minute_diffs =
                mon.per_minute_diffs
                  \o << percent - Val(mon.minute_anchor_percent) >>
                  \o Zeros(MinutesSinceAnchor - 1)]_vars
    /\ [](LastWasTick =>
            SeqSum(mon.per_minute_diffs) =
                Val(mon.minute_anchor_percent) - Val(mon.start_percent))

\* the first tick came 150 s after the start, with the reading changed: it
\* recorded the change and then a zero
C36_Witness ==
    /\ LastWasTick
    /\ now = 150
    /\ Len(mon.per_minute_diffs) = 2
    /\ mon.per_minute_diffs[1] = percent - Val(mon.start_percent)
    /\ mon.per_minute_diffs[1] # 0
    /\ mon.per_minute_diffs[2] = 0

\* ------------------------------------------------- configuration profiles

\* ConfigManager, held by the enhanced monitor as mon.config_manager; in
\* these runs db is battery_config.json, the file it loads and saves.  A
\* profile name is a sequence: << "work" >> is "work", and << "work", 1 >> is
\* "work_1", the name import_profile makes up.

DefaultName == << "default" >>

\* the names the user types, and the names found in imported files
UserNames == {DefaultName, << "work" >>, << "work", 1 >>}

\* the profiles a run holds at most
MaxProfiles == 3

\* the value of threshold_percent in a new profile, and the settings tried
DefaultThreshold == 80

ProfileThresholds == {80, 95}

ProfileConfig(th) == [threshold_percent |-> th]

\* a dict without one key
Without(d, k) == [n \in DOMAIN d \ {k} |-> d[n]]

\* a dict with one key set
With(d, k, v) == [n \in DOMAIN d \cup {k} |-> IF n = k THEN v ELSE d[n]]

NoFile == << >>

\* what save() writes
SavedFile(cm) ==
    Some([version |-> 2, active_profile |-> cm.active_profile_name,
          profiles |-> cm.profiles])

\* what app.py's _save_config writes to the same path
LegacyFile(th) == Some([version |-> 1, threshold_percent |-> th])

\* save(): the whole configuration, written over the file
save(s) == [s EXCEPT !.file = SavedFile(s.cm)]

raise_ValueError(s) == [s EXCEPT !.raised = TRUE]

\* create_profile
create_profile(s, name) ==
    IF name \in DOMAIN s.cm.profiles THEN raise_ValueError(s)
    ELSE save([s EXCEPT !.cm.profiles = With(@, name, ProfileConfig(DefaultThreshold))])

\* get_active_profile: the active profile, else the default one, else None
get_active_profile(cm) ==
    IF cm.active_profile_name \in DOMAIN cm.profiles
    THEN Some(cm.profiles[cm.active_profile_name])
    ELSE IF DefaultName \in DOMAIN cm.profiles
    THEN Some(cm.profiles[DefaultName])
    ELSE None

\* set_active_profile
set_active_profile(s, name) ==
    IF name \notin DOMAIN s.cm.profiles THEN raise_ValueError(s)
    ELSE save([s EXCEPT !.cm.active_profile_name = name])

\* update_profile with threshold_percent = th
update_profile(s, name, th) ==
    IF name \notin DOMAIN s.cm.profiles THEN raise_ValueError(s)
    ELSE save([s EXCEPT !.cm.profiles[name].threshold_percent = th])

\* delete_profile: never the default one; the active one hands over to it
delete_profile(s, name) ==
    IF name = DefaultName THEN raise_ValueError(s)
    ELSE IF name \notin DOMAIN s.cm.profiles THEN raise_ValueError(s)
    ELSE LET a == IF name = s.cm.active_profile_name THEN DefaultName
                  ELSE s.cm.active_profile_name
         IN save([s EXCEPT !.cm.active_profile_name = a,
                           !.cm.profiles = Without(@, name)])

\* duplicate_profile
duplicate_profile(s, source_name, new_name) ==
    IF source_name \notin DOMAIN s.cm.profiles THEN raise_ValueError(s)
    ELSE IF new_name \in DOMAIN s.cm.profiles THEN raise_ValueError(s)
    ELSE save([s EXCEPT !.cm.profiles = With(@, new_name, @[source_name])])

\* "Ensure unique name": original_1, original_2, ... until one is free
RECURSIVE unique_name(_, _, _, _)
unique_name(profiles, original_name, name, counter) ==
    IF name \in DOMAIN profiles
    THEN unique_name(profiles, original_name, Append(original_name, counter),
                     counter + 1)
    ELSE name

\* import_profile of a file holding the name data_name (None: no name in
\* it) and the given threshold, under new_name (None: not given)
import_profile(s, data_name, th, new_name) ==
    LET name == IF new_name # None THEN Val(new_name)
                ELSE IF data_name # None THEN Val(data_name)
                ELSE << "imported" >>
        unique == unique_name(s.cm.profiles, name, name, 1)
    IN save([s EXCEPT !.cm.profiles = With(@, unique, ProfileConfig(th))])

\* load(): nothing without a file; the active profile's name and the
\* profiles as the file has them; a legacy file becomes the default profile
load(s) ==
    IF s.file = NoFile THEN s
    ELSE LET data == Val(s.file)
         IN IF data.version = 1
            THEN save([s EXCEPT !.cm.active_profile_name = DefaultName,
                                !.cm.profiles =
                                    With(@, DefaultName,
                                         ProfileConfig(data.threshold_percent))])
            ELSE [s EXCEPT !.cm.active_profile_name = data.active_profile,
                           !.cm.profiles = data.profiles]

\* __init__ on the file: load, then "Ensure default profile exists"
ConfigManager(file) ==
    LET s0 == [cm |-> [profiles |-> << >>, active_profile_name |-> DefaultName],
               file |-> file, raised |-> FALSE]
        s1 == load(s0)
    IN IF DefaultName \notin DOMAIN s1.cm.profiles
       THEN create_profile(s1, DefaultName) ELSE s1

\* the configuration files found at the first start: none, one that
\* app.py saved, and well-formed ones of the profile format
FileNames == {DefaultName, << "work" >>}

FileProfiles ==
    UNION {[D -> {ProfileConfig(DefaultThreshold)}] : D \in SUBSET FileNames}

ConfigFiles ==
    {NoFile}
      \cup {LegacyFile(th) : th \in ProfileThresholds}
      \cup {Some([version |-> 2, active_profile |-> a, profiles |-> ps]) :
              a \in FileNames, ps \in FileProfiles}

\* the state a call starts from
Cfg == [cm |-> mon.config_manager, file |-> db, raised |-> FALSE]

InitConfig ==
    /\ \E file \in ConfigFiles :
         LET s == ConfigManager(file)
         IN /\ mon = [config_manager |-> s.cm]
            /\ db = s.file
    /\ now = 0
    /\ percent = 0
    /\ plugged = FALSE
    /\ variant = "enhanced"
    /\ out = << >>
    /\ NoHistory

\* a call returns or raises: out tells which
Called(s, what) ==
    /\ mon' = [config_manager |-> s.cm]
    /\ db' = s.file
    /\ out' = << what, IF s.raised THEN "ValueError" ELSE "returned" >>
    /\ UNCHANGED << now, percent, plugged, world, tick, inp, commands, race >>

HasRoom == Cardinality(DOMAIN mon.config_manager.profiles) < MaxProfiles

call_create_profile(name) ==
    /\ HasRoom \/ name \in DOMAIN mon.config_manager.profiles
    /\ Called(create_profile(Cfg, name), "create_profile")
    /\ UNCHANGED ghosts

call_set_active_profile(name) ==
    /\ Called(set_active_profile(Cfg, name), "set_active_profile")
    /\ UNCHANGED ghosts

call_update_profile(name, th) ==
    /\ Called(update_profile(Cfg, name, th), "update_profile")
    /\ UNCHANGED ghosts

call_delete_profile(name) ==
    /\ Called(delete_profile(Cfg, name), "delete_profile")
    /\ UNCHANGED ghosts

call_duplicate_profile(source_name, new_name) ==
    /\ HasRoom \/ new_name \in DOMAIN mon.config_manager.profiles
    /\ Called(duplicate_profile(Cfg, source_name, new_name), "duplicate_profile")
    /\ UNCHANGED ghosts

call_import_profile(data_name, th, new_name) ==
    /\ HasRoom
    /\ Called(import_profile(Cfg, data_name, th, new_name), "import_profile")
    /\ UNCHANGED ghosts

\* the program is started again on the file the last run left
restart ==
    /\ Called(ConfigManager(db), "restart")
    /\ UNCHANGED ghosts

NextConfig ==
    \/ \E name \in UserNames : call_create_profile(name)
    \/ \E name \in UserNames : call_set_active_profile(name)
    \/ \E name \in UserNames, th \in ProfileThresholds : call_update_profile(name, th)
    \/ \E name \in UserNames : call_delete_profile(name)
    \/ \E source_name \in UserNames, new_name \in UserNames :
          call_duplicate_profile(source_name, new_name)
    \/ \E data_name \in {None} \cup {Some(n) : n \in UserNames},
          th \in ProfileThresholds,
          new_name \in {None} \cup {Some(n) : n \in UserNames} :
          call_import_profile(data_name, th, new_name)
    \/ restart

SpecConfig == InitConfig /\ [][NextConfig]_vars

\* ------------------------------------------------------------------ C37

\* C37 as stated: after construction and after every call, the default
\* profile exists, the active name is the name of a profile, and
\* get_active_profile returns a profile.
C37_Original ==
    /\ DefaultName \in DOMAIN mon.config_manager.profiles
    /\ mon.config_manager.active_profile_name \in DOMAIN mon.config_manager.profiles
    /\ get_active_profile(mon.config_manager) # None

====
